---- MODULE Spec2Model ----
(***************************************************************************)
(* Semantic book search (hyunjin1012/justen): the search, seed and         *)
(* embed-all request handlers over the books / search_logs store, the      *)
(* catalog provider and the embedding provider.                            *)
(*                                                                         *)
(* A request is a process that moves from one awaited external call to the *)
(* next; the store, the catalog and the provider answer atomically.        *)
(***************************************************************************)
EXTENDS Integers, Sequences, FiniteSets, TLC

\* ------------------------------------------------------------------ bounds

\* Largest number of book rows in an initial store.
MaxBooks == 3
\* Largest catalog (number of works the provider lists) in a search run.
MaxCatalog == 2
\* Largest number of injected failures (provider, store, catalog) per run.
MaxFaults == 2
\* Largest catalog, in pages, in a run of the seed fetch.
MaxPages == 3
\* Longest downloaded text, in lines.
MaxLines == 2
\* Sample books of the demo route.
MaxSamples == 2

\* ------------------------------------------------- program constants

\* match_count / slice(0, 10): the result cap of the search route.
ResultCap == 10
\* .limit(50) of the coverage query.
CoverageLimit == 50
\* similarity > 0.15, in percent.
GoodSimilarityPct == 15
\* .limit(10) of the direct-query fallback.
FallbackLimit == 10

\* ------------------------------------------------------------ JS values

NULL == [t |-> "null"]
Undefined == [t |-> "undefined"]
JsString(s) == [t |-> "string", s |-> s]
JsNumber(n) == [t |-> "number", n |-> n]

\* A truthiness test that lets the empty string through.
Falsy_EmptyStringPasses(v) ==
  \/ v.t \in {"undefined", "null"}
  \/ v.t = "number" /\ v.n = 0

\* !v of JavaScript: undefined, null, "" and 0 are falsy.
Falsy(v) ==
  \/ v.t \in {"undefined", "null"}
  \/ v.t = "string" /\ v.s = <<>>
  \/ v.t = "number" /\ v.n = 0

\* Strings are sequences of character codes; 32 is a space and 9 a tab.
IsWhitespace(c) == c \in {32, 9}

RECURSIVE TrimStart(_)
TrimStart(s) ==
  IF s = <<>> THEN <<>>
  ELSE IF IsWhitespace(Head(s)) THEN TrimStart(Tail(s)) ELSE s

RECURSIVE TrimEnd(_)
TrimEnd(s) ==
  IF s = <<>> THEN <<>>
  ELSE IF IsWhitespace(s[Len(s)]) THEN TrimEnd(SubSeq(s, 1, Len(s) - 1)) ELSE s

\* String.prototype.trim
Trim(s) == TrimEnd(TrimStart(s))

\* ---------------------------------------------------------- embeddings

\* Embedding vectors are unit vectors; they are held as integer pairs of
\* length 65, and a similarity is held as its numerator over SimScale.
SimScale == 65 * 65

Vectors == << <<65, 0>>, <<60, 25>>, <<-16, 63>>, <<0, 65>>, <<-65, 0>> >>

Dot(a, b) == a[1] * b[1] + a[2] * b[2]

Norm(a) == CHOOSE r \in 0..SimScale : r * r = Dot(a, a)

\* cosineSimilarity(a, b) = dot(a, b) / (|a| |b|), scaled by SimScale.
cosineSimilarity(a, b) == (Dot(a, b) * SimScale) \div (Norm(a) * Norm(b))

\* openai.embeddings.create: a fixed model maps a text to one vector.
\* The text of a book is determined by its catalog id.
BookVec(g) == Vectors[((g - 1) % Len(Vectors)) + 1]

QueryKing == <<107>>
QuerySea == <<115>>
QueryBlank == <<32, 9>>

QueryVec(q) ==
  IF q = QueryKing THEN <<60, 25>>
  ELSE IF q = QuerySea THEN <<65, 0>>
  ELSE <<0, 65>>

\* --------------------------------------------------------------- store

\* A books row: surrogate key id, catalog id gutenberg_id, and the embedding
\* column, NULL or a vector with the encoding the client receives it in
\* ("string": a JSON text that parses; "array": a numeric array; "bad": a
\* text that JSON.parse rejects).
Encodings == {"string", "array", "bad"}
Vector(enc, vec) == [t |-> "vector", enc |-> enc, vec |-> vec]

MaxOf(S) == CHOOSE m \in S : \A x \in S : x <= m
NextRowId(B) == IF B = {} THEN 1 ELSE MaxOf({b.id : b \in B}) + 1

\* Rows in heap order (ascending id), as a sequence.
RECURSIVE RowSeq(_)
RowSeq(B) ==
  IF B = {} THEN <<>>
  ELSE LET first == CHOOSE b \in B : \A c \in B : b.id <= c.id
       IN  <<first>> \o RowSeq(B \ {first})

Take(s, n) == SubSeq(s, 1, IF Len(s) < n THEN Len(s) ELSE n)

\* A books table without the unique constraint.
UniqueConflict_None(B, g) == FALSE

\* The books schema declares gutenberg_id unique: a row of catalog id g
\* conflicts with any row that already carries g.
UniqueConflict(B, g) == \E b \in B : b.gutenberg_id = g

\* An insert that overwrites the row of a catalog id it finds stored.
StoreInsert_Overwrites(B, g, e) ==
  IF UniqueConflict(B, g)
  THEN [books |-> {IF b.gutenberg_id = g THEN [b EXCEPT !.embedding = e] ELSE b : b \in B},
        error |-> "none"]
  ELSE [books |-> B \cup {[id |-> NextRowId(B), gutenberg_id |-> g, embedding |-> e]},
        error |-> "none"]

\* insert: the unique constraint on gutenberg_id rejects a second row
\* (error code 23505); returns the new table and whether it was rejected.
StoreInsert(B, g, e) ==
  IF UniqueConflict(B, g)
  THEN [books |-> B, error |-> "23505"]
  ELSE [books |-> B \cup {[id |-> NextRowId(B), gutenberg_id |-> g, embedding |-> e]},
        error |-> "none"]

\* An upsert that writes the whole row: a conflicting row loses its embedding.
RECURSIVE StoreUpsert_ResetsEmbedding(_, _)
StoreUpsert_ResetsEmbedding(B, gs) ==
  IF gs = <<>> THEN B
  ELSE LET g == Head(gs)
           B1 == IF UniqueConflict(B, g)
                 THEN {IF b.gutenberg_id = g THEN [b EXCEPT !.embedding = NULL] ELSE b : b \in B}
                 ELSE B \cup {[id |-> NextRowId(B), gutenberg_id |-> g, embedding |-> NULL]}
       IN  StoreUpsert_ResetsEmbedding(B1, Tail(gs))

\* upsert(books, {onConflict: 'gutenberg_id'}) of records that carry no
\* embedding column: a conflicting row keeps its id and its embedding, a new
\* record becomes a row with a NULL embedding.
RECURSIVE StoreUpsert(_, _)
StoreUpsert(B, gs) ==
  IF gs = <<>> THEN B
  ELSE LET g == Head(gs)
           B1 == IF UniqueConflict(B, g)
                 THEN B
                 ELSE B \cup {[id |-> NextRowId(B), gutenberg_id |-> g, embedding |-> NULL]}
       IN  StoreUpsert(B1, Tail(gs))

\* An embedding write that inserts a row when none matches.
StoreUpdateEmbedding_Upsert(B, g, e) ==
  IF \E b \in B : b.gutenberg_id = g
  THEN {IF b.gutenberg_id = g THEN [b EXCEPT !.embedding = e] ELSE b : b \in B}
  ELSE B \cup {[id |-> NextRowId(B), gutenberg_id |-> g, embedding |-> e]}

\* An embedding write that is not idempotent: written to a row that already
\* has an embedding, it clears the column.
StoreUpdateEmbedding_Clears(B, g, e) ==
  {IF b.gutenberg_id = g
   THEN [b EXCEPT !.embedding = IF b.embedding = NULL THEN e ELSE NULL]
   ELSE b : b \in B}

\* update({embedding}).eq('gutenberg_id', g): every matching row gets the
\* embedding; no row is created.
StoreUpdateEmbedding(B, g, e) ==
  {IF b.gutenberg_id = g THEN [b EXCEPT !.embedding = e] ELSE b : b \in B}

\* select('*').is('embedding', null).limit(n)
SelectWithoutEmbedding(B, n) == Take(RowSeq({b \in B : b.embedding = NULL}), n)

\* select('*').not('embedding', 'is', null).limit(n)
SelectWithEmbedding(B, n) == Take(RowSeq({b \in B : b.embedding # NULL}), n)

\* 1 - (b.embedding <=> query_embedding), scaled by SimScale.
DbSimilarity(b, q) == cosineSimilarity(b.embedding.vec, q)

\* .sort((a, b) => b.similarity - a.similarity): stable, highest first.
RECURSIVE InsertDesc(_, _)
InsertDesc(x, s) ==
  IF s = <<>> THEN <<x>>
  ELSE IF Head(s).similarity >= x.similarity
       THEN <<Head(s)>> \o InsertDesc(x, Tail(s))
       ELSE <<x>> \o s

RECURSIVE SortPrefix(_, _)
SortPrefix(s, n) == IF n = 0 THEN <<>> ELSE InsertDesc(s[n], SortPrefix(s, n - 1))

SortBySimilarity(s) == SortPrefix(s, Len(s))

\* Whether a similarity is strictly above a threshold given in percent.
AbovePct(similarity, pct) == similarity * 100 > pct * SimScale

\* A function that applies LIMIT before ORDER BY.
search_books_by_similarity_LimitFirst(B, q, thresholdPct, count) ==
  LET heap == RowSeq({b \in B : b.embedding # NULL})
      scored == [i \in 1..Len(heap) |->
                   [id |-> heap[i].id, gutenberg_id |-> heap[i].gutenberg_id,
                    embedding |-> heap[i].embedding,
                    similarity |-> DbSimilarity(heap[i], q)]]
      qualifying == SelectSeq(scored, LAMBDA row : AbovePct(row.similarity, thresholdPct))
  IN  SortBySimilarity(Take(qualifying, count))

\* search_books_by_similarity(query_embedding, match_threshold, match_count):
\* the rows with an embedding whose similarity is above the threshold,
\* ORDER BY b.embedding <=> query_embedding (closest first, ties in heap
\* order), LIMIT match_count. The threshold is in percent.
search_books_by_similarity(B, q, thresholdPct, count) ==
  LET heap == RowSeq({b \in B : b.embedding # NULL})
      scored == [i \in 1..Len(heap) |->
                   [id |-> heap[i].id, gutenberg_id |-> heap[i].gutenberg_id,
                    embedding |-> heap[i].embedding,
                    similarity |-> DbSimilarity(heap[i], q)]]
      qualifying == SelectSeq(scored, LAMBDA row : AbovePct(row.similarity, thresholdPct))
  IN  Take(SortBySimilarity(qualifying), count)

\* ------------------------------------------------------------- catalog

\* The catalog lists the works 1..size, PageSize to a page.
PageSize == 32

Min(a, b) == IF a < b THEN a ELSE b

CatalogPage(size, p) ==
  LET lo == (p - 1) * PageSize + 1
      hi == Min(p * PageSize, size)
  IN  [i \in 1..(IF hi < lo THEN 0 ELSE hi - lo + 1) |-> lo + i - 1]

\* ------------------------------------------------------------- ranking

\* book.embedding && typeof book.embedding === 'string', JSON.parse succeeds
\* and the similarity is above 0.15.
IsGoodResult(book, q) ==
  /\ book.embedding.t = "vector"
  /\ book.embedding.enc = "string"
  /\ AbovePct(cosineSimilarity(q, book.embedding.vec), GoodSimilarityPct)

hasGoodResults(rows, q) ==
  Len(rows) > 0 /\ \E i \in 1..Len(rows) : IsGoodResult(rows[i], q)

\* .filter(book => !!book.embedding)
RECURSIVE FilterHasEmbedding(_)
FilterHasEmbedding(rows) ==
  IF rows = <<>> THEN <<>>
  ELSE IF Head(rows).embedding.t = "vector"
       THEN <<Head(rows)>> \o FilterHasEmbedding(Tail(rows))
       ELSE FilterHasEmbedding(Tail(rows))

\* The similarity the route computes for one candidate: 0 when the vector
\* cannot be decoded, else the cosine similarity to the query.
ScoreOf(book, q) ==
  IF book.embedding.enc = "bad" THEN 0
  ELSE cosineSimilarity(q, book.embedding.vec)

WithSimilarity(rows, q) ==
  [i \in 1..Len(rows) |->
     [id |-> rows[i].id, gutenberg_id |-> rows[i].gutenberg_id,
      similarity |-> ScoreOf(rows[i], q)]]

\* A ranking that forgets slice(0, 10).
RankResults_NoSlice(rows, q) ==
  SortBySimilarity(WithSimilarity(FilterHasEmbedding(rows), q))

\* resultsWithSimilarity: filter, score, sort, slice(0, 10), strip embedding.
RankResults(rows, q) ==
  Take(SortBySimilarity(WithSimilarity(FilterHasEmbedding(rows), q)), ResultCap)

\* ---------------------------------------------------------------- state

Req == {1, 2}

VARIABLES
  env,                 \* process.env: which credentials are set
  catalogSize,         \* number of works the catalog provider lists
  rpcEmbeddingColumn,  \* whether the deployed search function returns embedding
  columnEncoding,      \* the encoding a written embedding is read back in
  books,               \* the books table
  search_logs,         \* the search_logs table
  faults,              \* failures injected so far
  endpoint,            \* per request: the route it is sent to
  body,                \* per request: the request body
  pc,                  \* per request: the awaited call it is at
  queryEmbedding,      \* per request: the query's vector
  batch,               \* per request: the books of the running embedding loop
  idx,                 \* per request: the loop index into batch
  embedding,           \* per request: the vector just generated for batch[idx]
  found,               \* per request: the rows of the running similarity search
  results,             \* per request: the candidate rows
  ranked,              \* per request: resultsWithSimilarity
  totalBooks,          \* per seed request: the number of books asked for
  existingIds,         \* per seed request: the catalog ids read at its start
  page,                \* per seed request: the catalog page to request next
  pagesRequested,      \* per seed request: the pages requested so far, in order
  counts,              \* per seed / embed-all request: the outcome counters
  upstream,            \* per proxy request: what the catalog and the text host answer
  metadata,            \* per book-content request: the metadata it fetched
  samples,             \* demo route: SAMPLE_BOOKS[i].embedding, shared by its requests
  sampleCalls,         \* demo route: embeddings the provider returned, per sample book
  rpcArgs,             \* the arguments of a call of the database search function
  rpcRows,             \* the rows that call returned
  response,            \* per request: the response sent, if any
  calls                \* per request: external calls made, by kind

configVars == <<env, catalogSize, rpcEmbeddingColumn, columnEncoding, endpoint, body>>
storeVars == <<books, search_logs>>
searchVars == <<queryEmbedding, found, results, ranked>>
loopVars == <<batch, idx, embedding>>
adminVars == <<totalBooks, existingIds, page, pagesRequested, counts>>
proxyVars == <<upstream, metadata>>
demoVars == <<samples, sampleCalls>>
rpcVars == <<rpcArgs, rpcRows>>
vars == <<configVars, storeVars, faults, pc, searchVars, loopVars, adminVars, proxyVars,
         demoVars, rpcVars, response, calls>>

\* SAMPLE_BOOKS, by position.
SampleBooks == 1..MaxSamples

NoResponse == [status |-> 0]
NoUpstream == [catalog |-> [kind |-> "none"], text |-> [kind |-> "none"]]
NoCalls == [embed |-> 0, store |-> 0, catalog |-> 0, log |-> 0]
NoCounts == [processed |-> 0, skipped |-> 0, errors |-> 0]

\* NextResponse.json(..., {status}) and return.
Respond(r, resp) ==
  /\ response' = [response EXCEPT ![r] = resp]
  /\ pc' = [pc EXCEPT ![r] = "done"]

Goto(r, label) ==
  /\ pc' = [pc EXCEPT ![r] = label]
  /\ UNCHANGED response

Called(r, kind) == calls' = [calls EXCEPT ![r][kind] = @ + 1]

Fault == faults < MaxFaults /\ faults' = faults + 1
NoFault == UNCHANGED faults

ErrorResponse(status, message) == [status |-> status, error |-> message]
ResultsResponse(rs) == [status |-> 200, results |-> rs]

\* ------------------------------------------------- search route: POST

\* A handler that checks the provider key only.
SearchCheckEnv_KeyOnly(r) ==
  /\ endpoint[r] = "search" /\ pc[r] = "start"
  /\ IF ~env.OPENAI_API_KEY
       THEN Respond(r, ErrorResponse(500, "OpenAI API key not configured"))
     ELSE Goto(r, "parse")
  /\ UNCHANGED <<configVars, demoVars, rpcVars, proxyVars, adminVars, storeVars, faults, searchVars, loopVars, calls>>

\* The credential checks that open the handler.
SearchCheckEnv(r) ==
  /\ endpoint[r] = "search" /\ pc[r] = "start"
  /\ IF ~env.OPENAI_API_KEY
       THEN Respond(r, ErrorResponse(500, "OpenAI API key not configured"))
     ELSE IF ~env.SUPABASE_URL \/ ~env.SUPABASE_ANON_KEY
       THEN Respond(r, ErrorResponse(500, "Database not configured"))
     ELSE Goto(r, "parse")
  /\ UNCHANGED <<configVars, demoVars, rpcVars, proxyVars, adminVars, storeVars, faults, searchVars, loopVars, calls>>

\* const { query } = await request.json(), and the validation of query.
SearchParse(r) ==
  /\ endpoint[r] = "search" /\ pc[r] = "parse"
  /\ IF ~body[r].parses
       THEN Respond(r, ErrorResponse(500, "Internal server error"))
     ELSE IF Falsy(body[r].query) \/ body[r].query.t # "string"
       THEN Respond(r, ErrorResponse(400, "Query is required and must be a string"))
     ELSE Goto(r, "embedQuery")
  /\ UNCHANGED <<configVars, demoVars, rpcVars, proxyVars, adminVars, storeVars, faults, searchVars, loopVars, calls>>

\* A handler that goes on without a query embedding when the call failed.
SearchEmbedQuery_Swallows(r) ==
  /\ endpoint[r] = "search" /\ pc[r] = "embedQuery"
  /\ Called(r, "embed")
  /\ \/ /\ NoFault
        /\ queryEmbedding' = [queryEmbedding EXCEPT ![r] = QueryVec(body[r].query.s)]
     \/ /\ Fault
        /\ queryEmbedding' = [queryEmbedding EXCEPT ![r] = QueryVec(QueryBlank)]
  /\ Goto(r, "coverage")
  /\ UNCHANGED <<configVars, demoVars, rpcVars, proxyVars, adminVars, storeVars, found, results, ranked, loopVars>>

\* openai.embeddings.create({input: query}); a throw reaches the outer catch.
SearchEmbedQuery(r) ==
  /\ endpoint[r] = "search" /\ pc[r] = "embedQuery"
  /\ Called(r, "embed")
  /\ \/ /\ NoFault
        /\ queryEmbedding' = [queryEmbedding EXCEPT ![r] = QueryVec(body[r].query.s)]
        /\ Goto(r, "coverage")
     \/ /\ Fault
        /\ Respond(r, ErrorResponse(500, "Internal server error"))
        /\ UNCHANGED queryEmbedding
  /\ UNCHANGED <<configVars, demoVars, rpcVars, proxyVars, adminVars, storeVars, found, results, ranked, loopVars>>

\* ensureEmbeddingsExist: select the books without an embedding; an error of
\* the query or a throw is logged and the step is skipped.
ensureEmbeddingsExist(r) ==
  /\ endpoint[r] = "search" /\ pc[r] = "coverage"
  /\ Called(r, "store")
  /\ \/ /\ NoFault
        /\ LET booksWithoutEmbeddings == SelectWithoutEmbedding(books, CoverageLimit)
           IN  /\ batch' = [batch EXCEPT ![r] =
                              [i \in 1..Len(booksWithoutEmbeddings) |->
                                 booksWithoutEmbeddings[i].gutenberg_id]]
               /\ idx' = [idx EXCEPT ![r] = 1]
               /\ Goto(r, IF Len(booksWithoutEmbeddings) > 0 THEN "coverEmbed" ELSE "search1")
     \/ /\ Fault
        /\ Goto(r, "search1")
        /\ UNCHANGED <<batch, idx>>
  /\ UNCHANGED <<configVars, demoVars, rpcVars, proxyVars, adminVars, storeVars, searchVars, embedding>>

\* generateAndStoreEmbeddings (search route), one book of the batch: the
\* embedding call, then the update of the row. A throw of the embedding call
\* is caught per book; the loop goes on with the next book.
InLoop(r) == pc[r] \in {"coverEmbed", "coverStore", "replEmbed", "replStore"}
AfterLoop(r) == IF pc[r] \in {"coverEmbed", "coverStore"} THEN "search1" ELSE "search2"
LoopEmbedLabel(r) == IF pc[r] \in {"coverEmbed", "coverStore"} THEN "coverEmbed" ELSE "replEmbed"
LoopStoreLabel(r) == IF pc[r] \in {"coverEmbed", "coverStore"} THEN "coverStore" ELSE "replStore"

NextBook(r) ==
  IF idx[r] < Len(batch[r])
  THEN idx' = [idx EXCEPT ![r] = @ + 1] /\ Goto(r, LoopEmbedLabel(r))
  ELSE UNCHANGED idx /\ Goto(r, AfterLoop(r))

\* A loop that a failed embedding call ends: the rest of the batch is left.
generateEmbedding_Aborts(r) ==
  /\ endpoint[r] = "search" /\ pc[r] \in {"coverEmbed", "replEmbed"}
  /\ Called(r, "embed")
  /\ \/ /\ NoFault
        /\ embedding' = [embedding EXCEPT ![r] = BookVec(batch[r][idx[r]])]
        /\ Goto(r, LoopStoreLabel(r))
     \/ /\ Fault
        /\ Goto(r, AfterLoop(r))
        /\ UNCHANGED embedding
  /\ UNCHANGED idx
  /\ UNCHANGED <<configVars, demoVars, rpcVars, proxyVars, adminVars, storeVars, searchVars, batch>>

generateEmbedding(r) ==
  /\ endpoint[r] = "search" /\ pc[r] \in {"coverEmbed", "replEmbed"}
  /\ Called(r, "embed")
  /\ \/ /\ NoFault
        /\ embedding' = [embedding EXCEPT ![r] = BookVec(batch[r][idx[r]])]
        /\ Goto(r, LoopStoreLabel(r))
        /\ UNCHANGED idx
     \/ /\ Fault
        /\ NextBook(r)
        /\ UNCHANGED embedding
  /\ UNCHANGED <<configVars, demoVars, rpcVars, proxyVars, adminVars, storeVars, searchVars, batch>>

storeEmbedding(r) ==
  /\ endpoint[r] = "search" /\ pc[r] \in {"coverStore", "replStore"}
  /\ Called(r, "store")
  /\ \/ /\ NoFault
        /\ books' = StoreUpdateEmbedding(books, batch[r][idx[r]],
                                         Vector(columnEncoding, embedding[r]))
     \/ /\ Fault
        /\ UNCHANGED books
  /\ NextBook(r)
  /\ UNCHANGED <<configVars, demoVars, rpcVars, proxyVars, adminVars, search_logs, searchVars, batch, embedding>>

\* A handler that replenishes again whenever a search brings no good row.
Deliver_ReplenishAgain(r, rows) ==
  /\ results' = [results EXCEPT ![r] = IF pc[r] \in {"search1", "fallback1"} THEN rows
                                        ELSE @ \o rows]
  /\ Goto(r, IF hasGoodResults(rows, queryEmbedding[r]) THEN "rank" ELSE "replFetch")

\* What the handler does with the rows searchBooksWithVector returned: after
\* the first search it decides whether to replenish; after the second it
\* answers an empty list at once or appends the rows to the candidates.
Deliver(r, rows) ==
  IF pc[r] \in {"search1", "fallback1"}
  THEN /\ results' = [results EXCEPT ![r] = rows]
       /\ Goto(r, IF hasGoodResults(rows, queryEmbedding[r]) THEN "rank" ELSE "replFetch")
  ELSE IF Len(rows) = 0
       THEN /\ Respond(r, ResultsResponse(<<>>))
            /\ UNCHANGED results
       ELSE /\ results' = [results EXCEPT ![r] = @ \o rows]
            /\ Goto(r, "rank")

\* The rows as the client receives them: without the embedding column when
\* the deployed function does not return it.
RpcRows(rows) ==
  [i \in 1..Len(rows) |->
     IF rpcEmbeddingColumn THEN rows[i] ELSE [rows[i] EXCEPT !.embedding = Undefined]]

\* books.filter(book => book.embedding && book.embedding.length > 0)
NoneHasEmbedding(rows) == \A i \in 1..Len(rows) : rows[i].embedding.t # "vector"

\* searchBooksWithVector: the rpc call. An error or a throw gives [].
searchBooksWithVector(r) ==
  /\ endpoint[r] = "search" /\ pc[r] \in {"search1", "search2"}
  /\ Called(r, "store")
  /\ \/ /\ NoFault
        /\ LET rows == RpcRows(search_books_by_similarity(books, queryEmbedding[r], 0, ResultCap))
           IN  IF Len(rows) > 0 /\ NoneHasEmbedding(rows)
               THEN /\ found' = [found EXCEPT ![r] = rows]
                    /\ Goto(r, IF pc[r] = "search1" THEN "fallback1" ELSE "fallback2")
                    /\ UNCHANGED results
               ELSE /\ Deliver(r, rows)
                    /\ UNCHANGED found
     \/ /\ Fault
        /\ Deliver(r, <<>>)
        /\ UNCHANGED found
  /\ UNCHANGED <<configVars, demoVars, rpcVars, proxyVars, adminVars, storeVars, queryEmbedding, ranked, loopVars>>

\* searchBooksWithVector: the direct query made when no returned row carries
\* an embedding. Its error leaves the rpc rows as the result; a throw gives [].
searchFallback(r) ==
  /\ endpoint[r] = "search" /\ pc[r] \in {"fallback1", "fallback2"}
  /\ Called(r, "store")
  /\ \/ /\ NoFault
        /\ Deliver(r, SelectWithEmbedding(books, FallbackLimit))
     \/ /\ Fault
        /\ Deliver(r, found[r])
     \/ /\ Fault
        /\ Deliver(r, <<>>)
  /\ UNCHANGED <<configVars, demoVars, rpcVars, proxyVars, adminVars, storeVars, queryEmbedding, found, ranked, loopVars>>

\* fetchAndStoreBooks: the catalog request. A non-2xx answer or a throw
\* gives [] and nothing is stored.
fetchAndStoreBooks(r) ==
  /\ endpoint[r] = "search" /\ pc[r] = "replFetch"
  /\ Called(r, "catalog")
  /\ \/ /\ NoFault
        /\ batch' = [batch EXCEPT ![r] = CatalogPage(catalogSize, 1)]
        /\ Goto(r, "replUpsert")
     \/ /\ Fault
        /\ batch' = [batch EXCEPT ![r] = <<>>]
        /\ Goto(r, "search2")
  /\ idx' = [idx EXCEPT ![r] = 1]
  /\ UNCHANGED <<configVars, demoVars, rpcVars, proxyVars, adminVars, storeVars, searchVars, embedding>>

\* fetchAndStoreBooks: the upsert. On a store error the fetched books are
\* returned unsaved; either way they go to generateAndStoreEmbeddings.
upsertBooks(r) ==
  /\ endpoint[r] = "search" /\ pc[r] = "replUpsert"
  /\ Called(r, "store")
  /\ \/ /\ NoFault
        /\ books' = StoreUpsert(books, batch[r])
     \/ /\ Fault
        /\ UNCHANGED books
  /\ Goto(r, IF Len(batch[r]) > 0 THEN "replEmbed" ELSE "search2")
  /\ UNCHANGED <<configVars, demoVars, rpcVars, proxyVars, adminVars, search_logs, searchVars, loopVars>>

\* The candidates are scored, sorted and cut.
rankResults(r) ==
  /\ endpoint[r] = "search" /\ pc[r] = "rank"
  /\ ranked' = [ranked EXCEPT ![r] = RankResults(results[r], queryEmbedding[r])]
  /\ Goto(r, "log")
  /\ UNCHANGED <<configVars, demoVars, rpcVars, proxyVars, adminVars, storeVars, faults, queryEmbedding, found, results, loopVars, calls>>

\* An entry that counts the candidates and records the lowest similarity.
SearchLogEntry_Candidates(r, rs) ==
  [query |-> body[r].query.s, results_count |-> Len(results[r]),
   top_similarity |-> IF Len(rs) > 0 THEN rs[Len(rs)].similarity ELSE 0]

\* logSearch: the search_logs entry of a request.
SearchLogEntry(r, rs) ==
  [query |-> body[r].query.s, results_count |-> Len(rs),
   top_similarity |-> IF Len(rs) > 0 THEN rs[1].similarity ELSE 0]

\* A logSearch whose failure reaches the handler's catch.
logSearch_Propagates(r) ==
  /\ endpoint[r] = "search" /\ pc[r] = "log"
  /\ Called(r, "log")
  /\ \/ /\ NoFault
        /\ search_logs' = Append(search_logs, SearchLogEntry(r, ranked[r]))
        /\ Goto(r, "respond")
     \/ /\ Fault
        /\ UNCHANGED search_logs
        /\ Respond(r, ErrorResponse(500, "Internal server error"))
  /\ UNCHANGED <<configVars, demoVars, rpcVars, proxyVars, adminVars, books, searchVars, loopVars>>

\* logSearch: the insert; its error or throw is logged and swallowed.
logSearch(r) ==
  /\ endpoint[r] = "search" /\ pc[r] = "log"
  /\ Called(r, "log")
  /\ \/ /\ NoFault
        /\ search_logs' = Append(search_logs, SearchLogEntry(r, ranked[r]))
     \/ /\ Fault
        /\ UNCHANGED search_logs
  /\ Goto(r, "respond")
  /\ UNCHANGED <<configVars, demoVars, rpcVars, proxyVars, adminVars, books, searchVars, loopVars>>

\* return NextResponse.json({ results: resultsWithSimilarity })
SearchRespond(r) ==
  /\ endpoint[r] = "search" /\ pc[r] = "respond"
  /\ Respond(r, ResultsResponse(ranked[r]))
  /\ UNCHANGED <<configVars, demoVars, rpcVars, proxyVars, adminVars, storeVars, faults, searchVars, loopVars, calls>>

\* -------------------------------------------------------- initial states

Profiles == {"embedded", "null", "mixed"}

OtherEncoding(enc) == IF enc = "string" THEN "array" ELSE "string"

\* The embedding column of the initial row of catalog id g.
InitialEmbedding(profile, enc, g) ==
  IF profile = "null" THEN NULL
  ELSE IF profile = "embedded" THEN Vector(enc, BookVec(g))
  ELSE IF g % 4 = 0 THEN NULL
  ELSE IF g % 4 = 1 THEN Vector(enc, BookVec(g))
  ELSE IF g % 4 = 2 THEN Vector("bad", BookVec(g))
  ELSE Vector(OtherEncoding(enc), BookVec(g))

\* A store of n books, catalog ids 1..n, inserted in descending order.
InitialStore(n, profile, enc) ==
  {[id |-> n + 1 - g, gutenberg_id |-> g, embedding |-> InitialEmbedding(profile, enc, g)] :
     g \in 1..n}

\* Small stores of every profile, and one that holds more embedded books
\* than a response may carry.
InitialStores(enc) ==
  {InitialStore(n, profile, enc) : n \in 0..MaxBooks, profile \in Profiles}
    \cup {InitialStore(ResultCap + 2, "embedded", enc)}

Queries == {Undefined, JsNumber(0), JsNumber(42), JsString(<<>>),
            JsString(QueryBlank), JsString(QueryKing), JsString(QuerySea)}

SearchBodies == {[parses |-> FALSE]} \cup {[parses |-> TRUE, query |-> q] : q \in Queries}

NoBody == [parses |-> FALSE]

InitRequestState ==
  /\ queryEmbedding = [r \in Req |-> <<0, 0>>]
  /\ batch = [r \in Req |-> <<>>]
  /\ idx = [r \in Req |-> 1]
  /\ embedding = [r \in Req |-> <<0, 0>>]
  /\ found = [r \in Req |-> <<>>]
  /\ results = [r \in Req |-> <<>>]
  /\ ranked = [r \in Req |-> <<>>]
  /\ totalBooks = [r \in Req |-> 0]
  /\ existingIds = [r \in Req |-> {}]
  /\ page = [r \in Req |-> 1]
  /\ pagesRequested = [r \in Req |-> <<>>]
  /\ counts = [r \in Req |-> NoCounts]
  /\ metadata = [r \in Req |-> NULL]
  /\ samples = [b \in SampleBooks |-> NULL]
  /\ sampleCalls = [b \in SampleBooks |-> 0]
  /\ rpcArgs = NULL
  /\ rpcRows = <<>>
  /\ response = [r \in Req |-> NoResponse]
  /\ calls = [r \in Req |-> NoCalls]

\* One request, handled alone.
Init ==
  /\ env \in [{"OPENAI_API_KEY", "SUPABASE_URL", "SUPABASE_ANON_KEY"} -> BOOLEAN]
  /\ catalogSize \in 0..MaxCatalog
  /\ rpcEmbeddingColumn \in BOOLEAN
  /\ columnEncoding \in {"string", "array"}
  /\ books \in InitialStores(columnEncoding)
  /\ search_logs = <<>>
  /\ faults = 0
  /\ endpoint = [r \in Req |-> IF r = 1 THEN "search" ELSE "none"]
  /\ \E b \in SearchBodies : body = [r \in Req |-> IF r = 1 THEN b ELSE NoBody]
  /\ pc = [r \in Req |-> IF r = 1 THEN "start" ELSE "done"]
  /\ upstream = [r \in Req |-> NoUpstream]
  /\ InitRequestState

Step(r) ==
  \/ SearchCheckEnv(r)
  \/ SearchParse(r)
  \/ SearchEmbedQuery(r)
  \/ ensureEmbeddingsExist(r)
  \/ generateEmbedding(r)
  \/ storeEmbedding(r)
  \/ searchBooksWithVector(r)
  \/ searchFallback(r)
  \/ fetchAndStoreBooks(r)
  \/ upsertBooks(r)
  \/ rankResults(r)
  \/ logSearch(r)
  \/ SearchRespond(r)

Next == \E r \in Req : Step(r)

Spec == Init /\ [][Next]_vars

\* ---------------------------------------------------------------- claims

Configured == env.OPENAI_API_KEY /\ env.SUPABASE_URL /\ env.SUPABASE_ANON_KEY

IsSearch(r) == endpoint[r] = "search"
Succeeded(r) == pc[r] = "done" /\ response[r].status = 200

\* The query is a string that passes the route's validation.
ValidQuery(r) == body[r].parses /\ body[r].query.t = "string" /\ body[r].query.s # <<>>

\* The body is a JSON object whose query is missing, empty or not a string.
InvalidQuery(r) ==
  body[r].parses /\ (body[r].query.t # "string" \/ body[r].query.s = <<>>)

NonIncreasing(rs) ==
  \A i \in 1..Len(rs), j \in 1..Len(rs) : i < j => rs[i].similarity >= rs[j].similarity

\* C1: a successful search response carries at most 10 results, sorted in
\* non-increasing order of similarity, with or without replenishment and
\* whatever the number of embedded books in the store.
C1_CappedAndSorted ==
  \A r \in Req : IsSearch(r) /\ Succeeded(r) =>
    /\ Len(response[r].results) <= ResultCap
    /\ NonIncreasing(response[r].results)

\* C1 happens: replenishment ran, more than 10 candidates were ranked and the
\* response carries exactly 10 of them, not all of one similarity.
C1_Witness ==
  \E r \in Req :
    /\ IsSearch(r) /\ Succeeded(r) /\ calls[r].catalog = 1
    /\ Len(results[r]) > ResultCap
    /\ Len(response[r].results) = ResultCap
    /\ response[r].results[1].similarity > response[r].results[ResultCap].similarity

\* C2: every result of a successful search response has a similarity within
\* [0, 1], whichever source the candidate came from.
C2_SimilarityInUnitInterval ==
  \A r \in Req : IsSearch(r) /\ Succeeded(r) =>
    \A i \in 1..Len(response[r].results) :
      /\ response[r].results[i].similarity >= 0
      /\ response[r].results[i].similarity <= SimScale

\* C3: with credentials configured, a request whose query is missing, empty
\* or not a string makes no embedding, store, catalog or log call, leaves
\* both tables as they were, and its response is a 400.
C3_InvalidQueryRejected ==
  \A r \in Req : IsSearch(r) /\ Configured /\ InvalidQuery(r) =>
    /\ calls[r] = NoCalls
    /\ pc[r] = "done" => response[r].status = 400

\* C3 happens: a request with an invalid query has been answered.
C3_Witness ==
  \E r \in Req :
    /\ IsSearch(r) /\ Configured /\ InvalidQuery(r)
    /\ pc[r] = "done" /\ response[r].status = 400

\* C4: with credentials configured, a query of whitespace characters only is
\* rejected with a 400 before any embedding call is made.
C4_WhitespaceRejected ==
  \A r \in Req :
    IsSearch(r) /\ Configured /\ ValidQuery(r) /\ Trim(body[r].query.s) = <<>> =>
      /\ calls[r].embed = 0
      /\ pc[r] = "done" => response[r].status = 400

\* C6: every search request that passed validation and ended in a success
\* response attempted exactly one search_logs insert.
C6_LoggedOncePerRequest ==
  \A r \in Req : IsSearch(r) /\ Succeeded(r) => calls[r].log = 1

\* C7: once the log insert has been attempted, whether or not it failed, the
\* request ends in a success response that carries the ranked candidates.
C7_LogFailureTolerated ==
  \A r \in Req : IsSearch(r) /\ pc[r] = "done" /\ calls[r].log = 1 =>
    response[r] = ResultsResponse(RankResults(results[r], queryEmbedding[r]))

\* C7 happens: the insert failed, nothing was logged, and the response is a
\* success with results.
C7_Witness ==
  \E r \in Req :
    /\ IsSearch(r) /\ Succeeded(r) /\ calls[r].log = 1
    /\ search_logs = <<>>
    /\ Len(response[r].results) > 0

\* --------------------------------------------------- seed route: POST

\* const limit = 32: the page length the seed fetch asks for and expects.
limit == 32
\* { totalBooks = 200 }
DefaultTotalBooks == 200

\* The credential checks that open the handler.
SeedCheckEnv(r) ==
  /\ endpoint[r] = "seed" /\ pc[r] = "start"
  /\ IF ~env.OPENAI_API_KEY
       THEN Respond(r, ErrorResponse(500, "OpenAI API key not configured"))
     ELSE IF ~env.SUPABASE_URL \/ ~env.SUPABASE_ANON_KEY
       THEN Respond(r, ErrorResponse(500, "Database not configured"))
     ELSE Goto(r, "parse")
  /\ UNCHANGED <<configVars, demoVars, rpcVars, proxyVars, adminVars, storeVars, faults, searchVars, loopVars, calls>>

\* const { totalBooks = 200 } = await request.json().catch(() => ({}))
SeedParse(r) ==
  /\ endpoint[r] = "seed" /\ pc[r] = "parse"
  /\ totalBooks' = [totalBooks EXCEPT ![r] =
                      IF body[r].parses /\ body[r].totalBooks.t = "number"
                      THEN body[r].totalBooks.n ELSE DefaultTotalBooks]
  /\ Goto(r, "existing")
  /\ UNCHANGED <<configVars, demoVars, rpcVars, proxyVars, existingIds, page, pagesRequested, counts,
                 storeVars, faults, searchVars, loopVars, calls>>

\* while (allBooks.length < totalBooks): where the loop stands after an
\* iteration that did not break.
FetchLoopLabel(collected, total) == IF collected < total THEN "fetch" ELSE "fetched"

\* fetchBooksFromAPI: the read of the known catalog ids. The error value of
\* the read is not looked at: without data the set is empty.
SeedSelectExisting(r) ==
  /\ endpoint[r] = "seed" /\ pc[r] = "existing"
  /\ Called(r, "store")
  /\ \/ /\ NoFault
        /\ existingIds' = [existingIds EXCEPT ![r] = {b.gutenberg_id : b \in books}]
     \/ /\ Fault
        /\ existingIds' = [existingIds EXCEPT ![r] = {}]
  /\ batch' = [batch EXCEPT ![r] = <<>>]
  /\ page' = [page EXCEPT ![r] = 1]
  /\ Goto(r, FetchLoopLabel(0, totalBooks[r]))
  /\ UNCHANGED <<configVars, demoVars, rpcVars, proxyVars, totalBooks, pagesRequested, counts, storeVars,
                 searchVars, idx, embedding>>

\* data.results.filter(book => !existingIds.has(book.id))
RECURSIVE FilterNew(_, _)
FilterNew(recs, known) ==
  IF recs = <<>> THEN <<>>
  ELSE IF Head(recs) \in known THEN FilterNew(Tail(recs), known)
       ELSE <<Head(recs)>> \o FilterNew(Tail(recs), known)

\* A paging loop that forgets page++ before continue.
fetchBooksFromAPI_NoAdvance(r) ==
  /\ endpoint[r] = "seed" /\ pc[r] = "fetch"
  /\ Called(r, "catalog")
  /\ pagesRequested' = [pagesRequested EXCEPT ![r] = Append(@, page[r])]
  /\ \/ /\ NoFault
        /\ LET dataResults == CatalogPage(catalogSize, page[r])
               newBooks == FilterNew(dataResults, existingIds[r])
               booksToAdd == Take(newBooks, totalBooks[r] - Len(batch[r]))
               allBooks == batch[r] \o booksToAdd
           IN  IF Len(dataResults) = 0
               THEN /\ Goto(r, "fetched")
                    /\ UNCHANGED <<batch, page>>
               ELSE /\ batch' = [batch EXCEPT ![r] = allBooks]
                    /\ IF Len(newBooks) = 0
                       THEN /\ UNCHANGED page
                            /\ Goto(r, FetchLoopLabel(Len(allBooks), totalBooks[r]))
                       ELSE IF Len(dataResults) < limit
                       THEN /\ Goto(r, "fetched")
                            /\ UNCHANGED page
                       ELSE /\ page' = [page EXCEPT ![r] = @ + 1]
                            /\ Goto(r, FetchLoopLabel(Len(allBooks), totalBooks[r]))
     \/ /\ Fault
        /\ Goto(r, "fetched")
        /\ UNCHANGED <<batch, page>>
  /\ UNCHANGED <<configVars, demoVars, rpcVars, proxyVars, totalBooks, existingIds, counts, storeVars,
                 searchVars, idx, embedding>>

\* A paging loop that requests a failed page again.
fetchBooksFromAPI_Retries(r) ==
  /\ endpoint[r] = "seed" /\ pc[r] = "fetch"
  /\ Called(r, "catalog")
  /\ pagesRequested' = [pagesRequested EXCEPT ![r] = Append(@, page[r])]
  /\ \/ /\ NoFault
        /\ LET dataResults == CatalogPage(catalogSize, page[r])
               newBooks == FilterNew(dataResults, existingIds[r])
               booksToAdd == Take(newBooks, totalBooks[r] - Len(batch[r]))
               allBooks == batch[r] \o booksToAdd
           IN  IF Len(dataResults) = 0
               THEN /\ Goto(r, "fetched")
                    /\ UNCHANGED <<batch, page>>
               ELSE /\ batch' = [batch EXCEPT ![r] = allBooks]
                    /\ IF Len(newBooks) = 0
                       THEN /\ page' = [page EXCEPT ![r] = @ + 1]
                            /\ Goto(r, FetchLoopLabel(Len(allBooks), totalBooks[r]))
                       ELSE IF Len(dataResults) < limit
                       THEN /\ Goto(r, "fetched")
                            /\ UNCHANGED page
                       ELSE /\ page' = [page EXCEPT ![r] = @ + 1]
                            /\ Goto(r, FetchLoopLabel(Len(allBooks), totalBooks[r]))
     \/ /\ Fault
        /\ Goto(r, "fetch")
        /\ UNCHANGED <<batch, page>>
  /\ UNCHANGED <<configVars, demoVars, rpcVars, proxyVars, totalBooks, existingIds, counts, storeVars,
                 searchVars, idx, embedding>>

\* fetchBooksFromAPI: one iteration of the paging loop. A non-2xx answer or
\* a throw breaks the loop with what has been collected.
fetchBooksFromAPI(r) ==
  /\ endpoint[r] = "seed" /\ pc[r] = "fetch"
  /\ Called(r, "catalog")
  /\ pagesRequested' = [pagesRequested EXCEPT ![r] = Append(@, page[r])]
  /\ \/ /\ NoFault
        /\ LET dataResults == CatalogPage(catalogSize, page[r])
               newBooks == FilterNew(dataResults, existingIds[r])
               booksToAdd == Take(newBooks, totalBooks[r] - Len(batch[r]))
               allBooks == batch[r] \o booksToAdd
           IN  IF Len(dataResults) = 0
               THEN /\ Goto(r, "fetched")
                    /\ UNCHANGED <<batch, page>>
               ELSE /\ batch' = [batch EXCEPT ![r] = allBooks]
                    /\ IF Len(newBooks) = 0
                       THEN /\ page' = [page EXCEPT ![r] = @ + 1]
                            /\ Goto(r, FetchLoopLabel(Len(allBooks), totalBooks[r]))
                       ELSE IF Len(dataResults) < limit
                       THEN /\ Goto(r, "fetched")
                            /\ UNCHANGED page
                       ELSE /\ page' = [page EXCEPT ![r] = @ + 1]
                            /\ Goto(r, FetchLoopLabel(Len(allBooks), totalBooks[r]))
     \/ /\ Fault
        /\ Goto(r, "fetched")
        /\ UNCHANGED <<batch, page>>
  /\ UNCHANGED <<configVars, demoVars, rpcVars, proxyVars, totalBooks, existingIds, counts, storeVars,
                 searchVars, idx, embedding>>

\* POST: nothing fetched is a 500; else the embedding loop starts.
SeedFetched(r) ==
  /\ endpoint[r] = "seed" /\ pc[r] = "fetched"
  /\ IF Len(batch[r]) = 0
       THEN Respond(r, ErrorResponse(500, "No books fetched from API"))
       ELSE Goto(r, "seedCheck")
  /\ idx' = [idx EXCEPT ![r] = 1]
  /\ UNCHANGED <<configVars, demoVars, rpcVars, proxyVars, adminVars, storeVars, faults, searchVars, batch, embedding, calls>>

Counted(r, counter) == counts' = [counts EXCEPT ![r][counter] = @ + 1]

\* for (let i = 0; i < books.length; i++): on to the next record, or out.
NextRecord(r) ==
  IF idx[r] < Len(batch[r])
  THEN idx' = [idx EXCEPT ![r] = @ + 1] /\ Goto(r, "seedCheck")
  ELSE UNCHANGED idx /\ Goto(r, "seedRespond")

\* generateAndStoreEmbeddings (seed): the existence check of one record. The
\* error value of the read is not looked at; a throw counts as an error.
seedCheckExisting(r) ==
  /\ endpoint[r] = "seed" /\ pc[r] = "seedCheck"
  /\ Called(r, "store")
  /\ \/ /\ NoFault
        /\ IF \E b \in books : b.gutenberg_id = batch[r][idx[r]]
           THEN Counted(r, "skipped") /\ NextRecord(r)
           ELSE UNCHANGED <<counts, idx>> /\ Goto(r, "seedEmbed")
     \/ /\ Fault
        /\ UNCHANGED <<counts, idx>> /\ Goto(r, "seedEmbed")
     \/ /\ Fault
        /\ Counted(r, "errors") /\ NextRecord(r)
  /\ UNCHANGED <<configVars, demoVars, rpcVars, proxyVars, totalBooks, existingIds, page, pagesRequested,
                 storeVars, searchVars, batch, embedding>>

\* generateAndStoreEmbeddings (seed): the embedding call of one record.
seedEmbed(r) ==
  /\ endpoint[r] = "seed" /\ pc[r] = "seedEmbed"
  /\ Called(r, "embed")
  /\ \/ /\ NoFault
        /\ embedding' = [embedding EXCEPT ![r] = BookVec(batch[r][idx[r]])]
        /\ Goto(r, "seedInsert")
        /\ UNCHANGED <<counts, idx>>
     \/ /\ Fault
        /\ Counted(r, "errors") /\ NextRecord(r)
        /\ UNCHANGED embedding
  /\ UNCHANGED <<configVars, demoVars, rpcVars, proxyVars, totalBooks, existingIds, page, pagesRequested,
                 storeVars, searchVars, batch>>

\* A seed loop that does not count a record whose insert was rejected.
seedInsert_UncountedConflict(r) ==
  /\ endpoint[r] = "seed" /\ pc[r] = "seedInsert"
  /\ Called(r, "store")
  /\ \/ /\ NoFault
        /\ LET res == StoreInsert(books, batch[r][idx[r]],
                                  Vector(columnEncoding, embedding[r]))
           IN  /\ books' = res.books
               /\ IF res.error = "23505" THEN UNCHANGED counts ELSE Counted(r, "processed")
     \/ /\ Fault
        /\ UNCHANGED books
        /\ Counted(r, "errors")
  /\ NextRecord(r)
  /\ UNCHANGED <<configVars, demoVars, rpcVars, proxyVars, totalBooks, existingIds, page, pagesRequested,
                 search_logs, searchVars, batch, embedding>>

\* generateAndStoreEmbeddings (seed): the insert of one record with its
\* embedding. A unique violation (23505) counts as skipped, any other error
\* or a throw as an error.
seedInsert(r) ==
  /\ endpoint[r] = "seed" /\ pc[r] = "seedInsert"
  /\ Called(r, "store")
  /\ \/ /\ NoFault
        /\ LET res == StoreInsert(books, batch[r][idx[r]],
                                  Vector(columnEncoding, embedding[r]))
           IN  /\ books' = res.books
               /\ Counted(r, IF res.error = "23505" THEN "skipped" ELSE "processed")
     \/ /\ Fault
        /\ UNCHANGED books
        /\ Counted(r, "errors")
  /\ NextRecord(r)
  /\ UNCHANGED <<configVars, demoVars, rpcVars, proxyVars, totalBooks, existingIds, page, pagesRequested,
                 search_logs, searchVars, batch, embedding>>

SeedResponse(fetched, c) ==
  [status |-> 200, booksFetched |-> fetched, booksProcessed |-> c.processed,
   booksSkipped |-> c.skipped, booksWithErrors |-> c.errors]

\* return NextResponse.json({ success: true, ... })
SeedRespond(r) ==
  /\ endpoint[r] = "seed" /\ pc[r] = "seedRespond"
  /\ Respond(r, SeedResponse(Len(batch[r]), counts[r]))
  /\ UNCHANGED <<configVars, demoVars, rpcVars, proxyVars, adminVars, storeVars, faults, searchVars, loopVars, calls>>

SeedStep(r) ==
  \/ SeedCheckEnv(r)
  \/ SeedParse(r)
  \/ SeedSelectExisting(r)
  \/ fetchBooksFromAPI(r)
  \/ SeedFetched(r)
  \/ seedCheckExisting(r)
  \/ seedEmbed(r)
  \/ seedInsert(r)
  \/ SeedRespond(r)

\* ---------------------------------------------- embed-all route: POST

\* The credential checks that open the handler.
EmbedAllCheckEnv(r) ==
  /\ endpoint[r] = "embedAll" /\ pc[r] = "start"
  /\ IF ~env.OPENAI_API_KEY
       THEN Respond(r, ErrorResponse(500, "OpenAI API key not configured"))
     ELSE IF ~env.SUPABASE_URL \/ ~env.SUPABASE_ANON_KEY
       THEN Respond(r, ErrorResponse(500, "Database not configured"))
     ELSE Goto(r, "allSelect")
  /\ UNCHANGED <<configVars, demoVars, rpcVars, proxyVars, adminVars, storeVars, faults, searchVars, loopVars, calls>>

EmbedAllResponse(c, total) ==
  [status |-> 200, booksProcessed |-> c.processed, booksWithErrors |-> c.errors,
   totalBooks |-> total]

\* The read of all books without an embedding: its error is a 500, no such
\* book is a success at once.
EmbedAllSelect(r) ==
  /\ endpoint[r] = "embedAll" /\ pc[r] = "allSelect"
  /\ Called(r, "store")
  /\ \/ /\ NoFault
        /\ LET booksWithoutEmbeddings == SelectWithoutEmbedding(books, Cardinality(books))
           IN  /\ batch' = [batch EXCEPT ![r] =
                              [i \in 1..Len(booksWithoutEmbeddings) |->
                                 booksWithoutEmbeddings[i].gutenberg_id]]
               /\ IF Len(booksWithoutEmbeddings) = 0
                  THEN Respond(r, [status |-> 200, booksProcessed |-> 0])
                  ELSE Goto(r, "allEmbed")
     \/ /\ Fault
        /\ Respond(r, ErrorResponse(500, "Failed to fetch books"))
        /\ UNCHANGED batch
  /\ idx' = [idx EXCEPT ![r] = 1]
  /\ UNCHANGED <<configVars, demoVars, rpcVars, proxyVars, adminVars, storeVars, searchVars, embedding>>

\* On to the next book of the batch, or out of the loops.
NextOfAll(r) ==
  IF idx[r] < Len(batch[r])
  THEN idx' = [idx EXCEPT ![r] = @ + 1] /\ Goto(r, "allEmbed")
  ELSE UNCHANGED idx /\ Goto(r, "allRespond")

\* An embedding call that is made again for the same book when it failed.
embedAllEmbed_Retries(r) ==
  /\ endpoint[r] = "embedAll" /\ pc[r] = "allEmbed"
  /\ Called(r, "embed")
  /\ \/ /\ NoFault
        /\ embedding' = [embedding EXCEPT ![r] = BookVec(batch[r][idx[r]])]
        /\ Goto(r, "allUpdate")
     \/ /\ Fault
        /\ Goto(r, "allEmbed")
        /\ UNCHANGED embedding
  /\ UNCHANGED <<counts, idx>>
  /\ UNCHANGED <<configVars, demoVars, rpcVars, proxyVars, totalBooks, existingIds, page, pagesRequested,
                 storeVars, searchVars, batch>>

\* The embedding call of one book; a throw counts as an error.
embedAllEmbed(r) ==
  /\ endpoint[r] = "embedAll" /\ pc[r] = "allEmbed"
  /\ Called(r, "embed")
  /\ \/ /\ NoFault
        /\ embedding' = [embedding EXCEPT ![r] = BookVec(batch[r][idx[r]])]
        /\ Goto(r, "allUpdate")
        /\ UNCHANGED <<counts, idx>>
     \/ /\ Fault
        /\ Counted(r, "errors") /\ NextOfAll(r)
        /\ UNCHANGED embedding
  /\ UNCHANGED <<configVars, demoVars, rpcVars, proxyVars, totalBooks, existingIds, page, pagesRequested,
                 storeVars, searchVars, batch>>

\* An update whose error is not looked at: the book counts as processed.
embedAllUpdate_IgnoresError(r) ==
  /\ endpoint[r] = "embedAll" /\ pc[r] = "allUpdate"
  /\ Called(r, "store")
  /\ \/ /\ NoFault
        /\ books' = StoreUpdateEmbedding(books, batch[r][idx[r]],
                                         Vector(columnEncoding, embedding[r]))
     \/ /\ Fault
        /\ UNCHANGED books
  /\ Counted(r, "processed")
  /\ NextOfAll(r)
  /\ UNCHANGED <<configVars, demoVars, rpcVars, proxyVars, totalBooks, existingIds, page, pagesRequested,
                 search_logs, searchVars, batch, embedding>>

\* update({embedding}).eq('gutenberg_id', ...).select('gutenberg_id'): an
\* error, or an update that reports no affected row, counts as an error.
embedAllUpdate(r) ==
  /\ endpoint[r] = "embedAll" /\ pc[r] = "allUpdate"
  /\ Called(r, "store")
  /\ \/ /\ NoFault
        /\ books' = StoreUpdateEmbedding(books, batch[r][idx[r]],
                                         Vector(columnEncoding, embedding[r]))
        /\ Counted(r, IF \E b \in books : b.gutenberg_id = batch[r][idx[r]]
                      THEN "processed" ELSE "errors")
     \/ /\ Fault
        /\ UNCHANGED books
        /\ Counted(r, "errors")
  /\ NextOfAll(r)
  /\ UNCHANGED <<configVars, demoVars, rpcVars, proxyVars, totalBooks, existingIds, page, pagesRequested,
                 search_logs, searchVars, batch, embedding>>

\* return NextResponse.json({ success: true, ... })
EmbedAllRespond(r) ==
  /\ endpoint[r] = "embedAll" /\ pc[r] = "allRespond"
  /\ Respond(r, EmbedAllResponse(counts[r], Len(batch[r])))
  /\ UNCHANGED <<configVars, demoVars, rpcVars, proxyVars, adminVars, storeVars, faults, searchVars, loopVars, calls>>

EmbedAllStep(r) ==
  \/ EmbedAllCheckEnv(r)
  \/ EmbedAllSelect(r)
  \/ embedAllEmbed(r)
  \/ embedAllUpdate(r)
  \/ EmbedAllRespond(r)

\* ----------------------------------------- the three routes, one request

TotalBooksInputs == {Undefined, JsNumber(0), JsNumber(1), JsNumber(2)}

SeedBodies == {[parses |-> FALSE]} \cup {[parses |-> TRUE, totalBooks |-> t] : t \in TotalBooksInputs}

\* One request to any of the three routes, handled alone, over a small store
\* and a small catalog.
InitRoutes ==
  /\ env \in [{"OPENAI_API_KEY", "SUPABASE_URL", "SUPABASE_ANON_KEY"} -> BOOLEAN]
  /\ catalogSize \in 0..MaxCatalog
  /\ rpcEmbeddingColumn \in BOOLEAN
  /\ columnEncoding = "string"
  /\ books \in {InitialStore(n, profile, columnEncoding) : n \in 0..1, profile \in Profiles}
  /\ search_logs = <<>>
  /\ faults = 0
  /\ \E e \in {"search", "seed", "embedAll"} :
       /\ endpoint = [r \in Req |-> IF r = 1 THEN e ELSE "none"]
       /\ \E b \in (IF e = "seed" THEN SeedBodies
                   ELSE IF e = "search" THEN SearchBodies ELSE {NoBody}) :
            body = [r \in Req |-> IF r = 1 THEN b ELSE NoBody]
  /\ pc = [r \in Req |-> IF r = 1 THEN "start" ELSE "done"]
  /\ upstream = [r \in Req |-> NoUpstream]
  /\ InitRequestState

NextRoutes == \E r \in Req : Step(r) \/ SeedStep(r) \/ EmbedAllStep(r)

SpecRoutes == InitRoutes /\ [][NextRoutes]_vars

\* C5: when a credential is missing, a request to the search, seed or
\* embed-all route makes no embedding, store, catalog or log call, whatever
\* its body, and its response is a 500.
C5_MisconfigurationFailsFast ==
  \A r \in Req : endpoint[r] # "none" /\ ~Configured =>
    /\ calls[r] = NoCalls
    /\ pc[r] \in {"start", "done"}
    /\ pc[r] = "done" => response[r].status = 500

\* C5 happens: a search request with a valid query was answered while the
\* provider key was set and a store credential was not.
C5_Witness ==
  \E r \in Req :
    /\ IsSearch(r) /\ ValidQuery(r)
    /\ env.OPENAI_API_KEY /\ ~env.SUPABASE_ANON_KEY
    /\ pc[r] = "done" /\ response[r].status = 500

\* ------------------------------------------------ the seed fetch, alone

\* A store that holds the catalog ids lo..hi, all embedded.
InitialStoreRange(lo, hi, enc) ==
  {[id |-> g - lo + 1, gutenberg_id |-> g, embedding |-> Vector(enc, BookVec(g))] :
     g \in lo..hi}

\* Catalogs that end on a page boundary, just after one and just before one.
FetchCatalogSizes == {p * PageSize + d : p \in 0..(MaxPages - 1), d \in {0, 1, PageSize - 1}}

\* Known ids: none, one, a whole first page, a page and one more, the second
\* page only, every page, and a first page but for its first record.
KnownRanges ==
  {<<1, 0>>, <<1, 1>>, <<1, PageSize>>, <<1, PageSize + 1>>,
   <<PageSize + 1, 2 * PageSize>>, <<1, MaxPages * PageSize>>, <<2, PageSize>>}

FetchBodies ==
  {[parses |-> FALSE]} \cup
  {[parses |-> TRUE, totalBooks |-> t] :
     t \in {Undefined, JsNumber(0), JsNumber(1), JsNumber(PageSize + 1)}}

\* One seed request, followed up to the return of fetchBooksFromAPI.
InitSeedFetch ==
  /\ env \in {[k \in {"OPENAI_API_KEY", "SUPABASE_URL", "SUPABASE_ANON_KEY"} |-> k \notin missing] :
               missing \in {{}, {"SUPABASE_URL"}}}
  /\ catalogSize \in FetchCatalogSizes
  /\ rpcEmbeddingColumn = TRUE
  /\ columnEncoding = "string"
  /\ books \in {InitialStoreRange(k[1], k[2], columnEncoding) : k \in KnownRanges}
  /\ search_logs = <<>>
  /\ faults = 0
  /\ endpoint = [r \in Req |-> IF r = 1 THEN "seed" ELSE "none"]
  /\ \E b \in FetchBodies : body = [r \in Req |-> IF r = 1 THEN b ELSE NoBody]
  /\ pc = [r \in Req |-> IF r = 1 THEN "start" ELSE "done"]
  /\ upstream = [r \in Req |-> NoUpstream]
  /\ InitRequestState

NextSeedFetch ==
  \E r \in Req :
    \/ SeedCheckEnv(r)
    \/ SeedParse(r)
    \/ SeedSelectExisting(r)
    \/ fetchBooksFromAPI(r)

\* A request that can take a step takes one: an awaited call returns.
SpecSeedFetch == InitSeedFetch /\ [][NextSeedFetch]_vars /\ WF_vars(NextSeedFetch)

IsSeed(r) == endpoint[r] = "seed"

\* The request has just run one iteration of the paging loop.
FetchIteration(r) == pc[r] = "fetch" /\ Len(pagesRequested'[r]) = Len(pagesRequested[r]) + 1

\* The page about to be requested exists and every record of it is known.
PageFullyKnown(r) ==
  LET recs == CatalogPage(catalogSize, page[r])
  IN  Len(recs) > 0 /\ \A i \in 1..Len(recs) : recs[i] \in existingIds[r]

StrictlyIncreasing(s) == \A i \in 1..Len(s), j \in 1..Len(s) : i < j => s[i] < s[j]

\* The paging loop is over: the request is before the loop with no way in,
\* or past it.
FetchOver(r) == pc[r] \in {"fetched", "done"}

\* C10: in the seed fetch, a fully known page adds no record and moves the
\* fetcher to the next page number; every iteration after which the loop
\* continues has raised the page number by one; no page is requested twice;
\* and the loop ends.
C10_FetchAdvancesAndEnds ==
  /\ [][\A r \in Req : IsSeed(r) /\ FetchIteration(r) =>
          /\ pc'[r] = "fetch" => page'[r] = page[r] + 1
          /\ PageFullyKnown(r) /\ faults' = faults =>
               batch'[r] = batch[r] /\ page'[r] = page[r] + 1]_vars
  /\ [](\A r \in Req : StrictlyIncreasing(pagesRequested[r]))
  /\ <>(\A r \in Req : FetchOver(r))

\* C10 happens: every page of a catalog of several pages was known, each was
\* requested once, in order, and the loop ended with nothing collected.
C10_Witness ==
  \E r \in Req :
    /\ IsSeed(r) /\ pc[r] = "fetched" /\ faults = 0
    /\ catalogSize >= 2 * PageSize
    /\ \A g \in 1..catalogSize : g \in existingIds[r]
    /\ Len(pagesRequested[r]) >= 3
    /\ batch[r] = <<>>

\* ------------------------------------------------ two requests at once

RouteOrder(e) == IF e = "search" THEN 1 ELSE IF e = "seed" THEN 2 ELSE 3

ConcBody(e) ==
  IF e = "search" THEN [parses |-> TRUE, query |-> JsString(QuerySea)]
  ELSE NoBody

\* Two requests, to any two routes, run interleaved over one store with all
\* credentials set; at most one failure is injected.
InitConc ==
  /\ env = [k \in {"OPENAI_API_KEY", "SUPABASE_URL", "SUPABASE_ANON_KEY"} |-> TRUE]
  /\ catalogSize \in 1..MaxCatalog
  /\ rpcEmbeddingColumn \in BOOLEAN
  /\ columnEncoding = "string"
  /\ books \in {InitialStore(n, profile, columnEncoding) :
                  n \in 0..1, profile \in {"embedded", "null"}}
  /\ search_logs = <<>>
  /\ faults = MaxFaults - 1
  /\ endpoint \in {f \in [Req -> {"search", "seed", "embedAll"}] :
                     RouteOrder(f[1]) <= RouteOrder(f[2])}
  /\ body = [r \in Req |-> ConcBody(endpoint[r])]
  /\ pc = [r \in Req |-> "start"]
  /\ upstream = [r \in Req |-> NoUpstream]
  /\ InitRequestState

SpecConc == InitConc /\ [][NextRoutes]_vars

\* C8: in every reachable store state no two book rows carry the same
\* catalog id.
C8_CatalogIdUnique ==
  \A b1 \in books, b2 \in books : b1.gutenberg_id = b2.gutenberg_id => b1 = b2

\* C8 happens: a seed request checked a catalog id, found no row, and its
\* insert was then rejected because another writer had stored that id in
\* between; the store holds one row for it.
C8_Witness ==
  \E r \in Req :
    /\ IsSeed(r) /\ pc[r] = "done" /\ faults = MaxFaults - 1
    /\ counts[r].skipped > 0
    /\ calls[r].embed = Len(batch[r])
    /\ \A i \in 1..Len(batch[r]) :
         Cardinality({b \in books : b.gutenberg_id = batch[r][i]}) = 1

\* The rows a request's embedding write addresses, and the value it writes.
WritesEmbedding(r) == pc[r] \in {"coverStore", "replStore", "allUpdate"} /\ pc'[r] # pc[r]
Keys(B) == {<<b.id, b.gutenberg_id>> : b \in B}

\* C9: a successful embedding write for catalog id g leaves the set of rows
\* as it was, sets the embedding of the rows of g, touches no other row,
\* changes nothing when repeated, and changes nothing when g has no row.
C9_EmbeddingWriteIdempotent ==
  [][\A r \in Req : WritesEmbedding(r) /\ faults' = faults =>
       LET g == batch[r][idx[r]]
           e == Vector(columnEncoding, embedding[r])
       IN  /\ Keys(books') = Keys(books)
           /\ \A b \in books' : b.gutenberg_id = g => b.embedding = e
           /\ \A b \in books' : b.gutenberg_id # g => b \in books
           /\ StoreUpdateEmbedding(books', g, e) = books'
           /\ ~UniqueConflict(books, g) => books' = books]_vars

\* C9 happens: replenishment fetched records, their upsert failed, and the
\* embedding writes for them ran against a store with no row for any of
\* them.
C9_Witness ==
  \E r \in Req :
    /\ IsSearch(r) /\ pc[r] = "search2" /\ faults = 1
    /\ Len(batch[r]) > 0
    /\ \A i \in 1..Len(batch[r]) : ~UniqueConflict(books, batch[r][i])

\* ------------------------------------------- catalog proxy routes: GET

\* A summary text is a string of character codes: 119 stands for a word,
\* and 40 46 41 for "(This is an automatically generated summary.)", whose
\* form without the full stop is 40 41.
Word == <<119>>
DisclaimerDot == <<40, 46, 41>>
DisclaimerNoDot == <<40, 41>>

EndsWith(s, lit) ==
  Len(s) >= Len(lit) /\ SubSeq(s, Len(s) - Len(lit) + 1, Len(s)) = lit

\* s.replace(/\s*<lit>\s*$/i, ''): the literal at the end of the string goes,
\* with the white space around it; a string that does not end so is kept.
StripAtEnd(s, lit) ==
  LET t == TrimEnd(s)
  IN  IF EndsWith(t, lit) THEN TrimEnd(SubSeq(t, 1, Len(t) - Len(lit))) ELSE s

\* The two replaces and the trim applied to summaries[0].
CleanSummary(s) == Trim(StripAtEnd(StripAtEnd(s, DisclaimerDot), DisclaimerNoDot))

SummaryTexts ==
  {Word, Word \o <<32>> \o DisclaimerDot, Word \o DisclaimerNoDot \o <<32>>,
   DisclaimerDot, <<32>>}

\* What a catalog record can carry in its summaries and formats fields.
JsArray(a) == [t |-> "array", a |-> a]
SummariesValues == {Undefined, JsArray(<<>>)} \cup {JsArray(<<JsString(x)>>) : x \in SummaryTexts}
MimeTypes == {"text/plain; charset=utf-8", "text/plain; charset=us-ascii", "text/plain",
              "text/html"}
FormatsValues == {Undefined} \cup
  {[t |-> "object", keys |-> k] : k \in {{}, {"text/html"}, {"text/plain", "text/html"},
      {"text/plain; charset=us-ascii", "text/plain"}, MimeTypes}}

Works == {[t |-> "object", id |-> 84, summaries |-> sm, formats |-> f] :
            sm \in SummariesValues, f \in FormatsValues}

\* The answers of GET gutendex.com/books/?ids=<id>: the request throws, the
\* status is not 2xx, the body is not JSON, or the body is JSON.
Malformed == [t |-> "malformed"]
CatalogData == {NULL, [t |-> "object", results |-> Undefined],
                [t |-> "object", results |-> JsArray(<<>>)],
                [t |-> "object", results |-> JsArray(<<NULL>>)]}
                 \cup {[t |-> "object", results |-> JsArray(<<w>>)] : w \in Works}
CatalogReplies == {[kind |-> "throws"], [kind |-> "status", ok |-> FALSE],
                   [kind |-> "status", ok |-> TRUE, json |-> Malformed]}
                   \cup {[kind |-> "status", ok |-> TRUE, json |-> d] : d \in CatalogData}

\* !results || results.length === 0
NoResults(data) == Falsy(data.results) \/ data.results.a = <<>>

EmptySummary == [status |-> 200, success |-> TRUE, summary |-> NULL, hasSummary |-> FALSE]

\* The body of GET once the id is known to be present: every failure of the
\* catalog call, and every exception, ends in the empty summary.
SummaryResponse(reply) ==
  IF reply.kind = "throws" THEN EmptySummary
  ELSE IF ~reply.ok THEN EmptySummary
  ELSE IF reply.json = Malformed THEN EmptySummary
  ELSE IF reply.json = NULL THEN EmptySummary
  ELSE IF NoResults(reply.json) THEN EmptySummary
  ELSE LET book == reply.json.results.a[1]
       IN  IF book = NULL THEN EmptySummary
           ELSE IF Falsy(book.summaries) \/ book.summaries.a = <<>>
             THEN EmptySummary
           ELSE LET summary == JsString(CleanSummary(book.summaries.a[1].s))
                IN  [status |-> 200, success |-> TRUE, summary |-> summary,
                     hasSummary |-> ~Falsy(summary)]

\* const bookId = searchParams.get('id'); if (!bookId) return 400
SummaryGet(r) ==
  /\ endpoint[r] = "summary" /\ pc[r] = "start"
  /\ IF Falsy(body[r].id)
       THEN Respond(r, ErrorResponse(400, "Book ID is required"))
     ELSE Goto(r, "sumFetch")
  /\ UNCHANGED <<configVars, demoVars, rpcVars, proxyVars, adminVars, storeVars, faults, searchVars, loopVars, calls>>

\* A handler that lets the failures of the catalog call reach its outer
\* catch, which answers 500, and answers 404 for a work that is not listed.
SummaryFetch_Propagates(r) ==
  /\ endpoint[r] = "summary" /\ pc[r] = "sumFetch"
  /\ Called(r, "catalog")
  /\ LET reply == upstream[r].catalog
     IN  IF reply.kind = "throws" \/ ~reply.ok \/ reply.json = Malformed
           THEN Respond(r, ErrorResponse(500, "Failed to fetch book summary"))
         ELSE IF reply.json # NULL /\ NoResults(reply.json)
           THEN Respond(r, ErrorResponse(404, "Book not found"))
         ELSE Respond(r, SummaryResponse(reply))
  /\ UNCHANGED <<configVars, demoVars, rpcVars, proxyVars, adminVars, storeVars, faults, searchVars, loopVars>>

\* The catalog call and what follows it.
SummaryFetch(r) ==
  /\ endpoint[r] = "summary" /\ pc[r] = "sumFetch"
  /\ Called(r, "catalog")
  /\ Respond(r, SummaryResponse(upstream[r].catalog))
  /\ UNCHANGED <<configVars, demoVars, rpcVars, proxyVars, adminVars, storeVars, faults, searchVars, loopVars>>

\* A downloaded text is a list of lines: "S" holds a start marker
\* ("*** START OF" or "*** BEGIN OF"), "E" an end marker ("*** END OF" or
\* "*** THE END"), "T" is a line of text and "B" a blank line.
LineKinds == {"S", "E", "T", "B"}
Texts == UNION {[1..n -> LineKinds] : n \in 1..MaxLines}

HeaderWindow == 500
FooterWindow == 200

Max(a, b) == IF a > b THEN a ELSE b

\* lines.slice(from, to), both counted from 0.
Slice(lines, from, to) == SubSeq(lines, from + 1, Min(to, Len(lines)))

RECURSIVE TrimLinesStart(_)
TrimLinesStart(lines) ==
  IF lines = <<>> THEN <<>>
  ELSE IF Head(lines) = "B" THEN TrimLinesStart(Tail(lines)) ELSE lines

RECURSIVE TrimLinesEnd(_)
TrimLinesEnd(lines) ==
  IF lines = <<>> THEN <<>>
  ELSE IF lines[Len(lines)] = "B" THEN TrimLinesEnd(SubSeq(lines, 1, Len(lines) - 1))
  ELSE lines

\* Drops everything up to the first start marker among the first 500 lines
\* and everything from the last end marker among the last 200 lines, then
\* trims.
cleanContent(lines) ==
  LET starts == {i \in 0..(Min(Len(lines), HeaderWindow) - 1) : lines[i + 1] = "S"}
      ends == {i \in Max(0, Len(lines) - FooterWindow)..(Len(lines) - 1) : lines[i + 1] = "E"}
      startIndex == IF starts = {} THEN 0
                    ELSE (CHOOSE i \in starts : \A j \in starts : i <= j) + 1
      endIndex == IF ends = {} THEN Len(lines)
                  ELSE CHOOSE i \in ends : \A j \in ends : j <= i
  IN  TrimLinesEnd(TrimLinesStart(Slice(lines, startIndex, endIndex)))

\* The answers of the text download.
TextReplies == {[kind |-> "throws"], [kind |-> "status", ok |-> FALSE]}
                 \cup {[kind |-> "status", ok |-> TRUE, text |-> x] : x \in Texts}

\* formats[...] || formats[...] || formats[...], or null.
getTextUrl(formats) ==
  IF "text/plain; charset=utf-8" \in formats.keys
    THEN JsString(<<117>>)
  ELSE IF "text/plain; charset=us-ascii" \in formats.keys
    THEN JsString(<<97>>)
  ELSE IF "text/plain" \in formats.keys
    THEN JsString(<<112>>)
  ELSE NULL

NotFound == ErrorResponse(404, "Book not found or content unavailable")

\* The work getBookMetadata returns, or null: null for every failure of the
\* catalog call and when the catalog lists no such work.
BookMetadataOf(reply) ==
  IF reply.kind = "throws" THEN NULL
  ELSE IF ~reply.ok THEN NULL
  ELSE IF reply.json = Malformed \/ reply.json = NULL THEN NULL
  ELSE IF NoResults(reply.json) THEN NULL
  ELSE reply.json.results.a[1]

ContentGet(r) ==
  /\ endpoint[r] = "content" /\ pc[r] = "start"
  /\ IF Falsy(body[r].id)
       THEN Respond(r, ErrorResponse(400, "Book ID is required"))
     ELSE Goto(r, "metadata")
  /\ UNCHANGED <<configVars, demoVars, rpcVars, proxyVars, adminVars, storeVars, faults, searchVars, loopVars, calls>>

\* getBookMetadata, and the two tests of fetchBookContent that follow it: no
\* metadata and no text format both end in null, which GET answers with 404.
getBookMetadata(r) ==
  /\ endpoint[r] = "content" /\ pc[r] = "metadata"
  /\ Called(r, "catalog")
  /\ LET md == BookMetadataOf(upstream[r].catalog)
     IN  /\ metadata' = [metadata EXCEPT ![r] = md]
         /\ IF Falsy(md) THEN Respond(r, NotFound)
            ELSE IF md.formats = Undefined THEN Respond(r, NotFound)
            ELSE IF getTextUrl(md.formats) = NULL THEN Respond(r, NotFound)
            ELSE Goto(r, "content")
  /\ UNCHANGED <<configVars, demoVars, rpcVars, upstream, adminVars, storeVars, faults, searchVars, loopVars>>

ContentResponse(md, content, textUrl) ==
  [status |-> 200, success |-> TRUE,
   data |-> [metadata |-> md, content |-> content, textUrl |-> textUrl]]

\* A download whose failure status is not looked at.
fetchBookContent_IgnoresStatus(r) ==
  /\ endpoint[r] = "content" /\ pc[r] = "content"
  /\ LET reply == upstream[r].text
         textUrl == getTextUrl(metadata[r].formats)
     IN  IF reply.kind = "throws" THEN Respond(r, NotFound)
         ELSE Respond(r, ContentResponse(metadata[r],
                           IF reply.ok THEN cleanContent(reply.text) ELSE <<>>, textUrl))
  /\ UNCHANGED <<configVars, demoVars, rpcVars, proxyVars, adminVars, storeVars, faults, searchVars, loopVars, calls>>

\* The download of the text and the response of GET.
fetchBookContent(r) ==
  /\ endpoint[r] = "content" /\ pc[r] = "content"
  /\ LET reply == upstream[r].text
         textUrl == getTextUrl(metadata[r].formats)
     IN  IF reply.kind = "throws" THEN Respond(r, NotFound)
         ELSE IF ~reply.ok THEN Respond(r, NotFound)
         ELSE Respond(r, ContentResponse(metadata[r], cleanContent(reply.text), textUrl))
  /\ UNCHANGED <<configVars, demoVars, rpcVars, proxyVars, adminVars, storeVars, faults, searchVars, loopVars, calls>>

ProxyStep(r) ==
  \/ SummaryGet(r)
  \/ SummaryFetch(r)
  \/ ContentGet(r)
  \/ getBookMetadata(r)
  \/ fetchBookContent(r)

\* searchParams.get('id'): absent, empty, or a catalog id.
IdInputs == {NULL, JsString(<<>>), JsString(<<56, 52>>)}

\* One request to the summary route or to the content route.
InitProxy ==
  /\ env \in [{"OPENAI_API_KEY", "SUPABASE_URL", "SUPABASE_ANON_KEY"} -> {TRUE}]
  /\ catalogSize = 0
  /\ rpcEmbeddingColumn = TRUE
  /\ columnEncoding = "string"
  /\ books = {}
  /\ search_logs = <<>>
  /\ faults = 0
  /\ endpoint \in {[r \in Req |-> IF r = 1 THEN e ELSE "none"] : e \in {"summary", "content"}}
  /\ body \in {[r \in Req |-> IF r = 1 THEN [id |-> i] ELSE NoBody] : i \in IdInputs}
  /\ pc = [r \in Req |-> "start"]
  /\ \E c \in CatalogReplies :
       \E t \in IF endpoint[1] = "content" THEN TextReplies ELSE {[kind |-> "none"]} :
         upstream = [r \in Req |-> IF r = 1 THEN [catalog |-> c, text |-> t] ELSE NoUpstream]
  /\ InitRequestState

NextProxy == \E r \in Req : ProxyStep(r)

SpecProxy == InitProxy /\ [][NextProxy]_vars

IsSummary(r) == endpoint[r] = "summary"
IsContent(r) == endpoint[r] = "content"
HasId(r) == ~Falsy(body[r].id)

\* The catalog call of a summary request failed or found no summary.
NoSummaryUpstream(reply) ==
  \/ reply.kind = "throws"
  \/ reply.kind = "status" /\ ~reply.ok
  \/ reply.kind = "status" /\ reply.ok /\
       \/ reply.json \in {Malformed, NULL}
       \/ reply.json.t = "object" /\
            \/ reply.json.results = Undefined
            \/ reply.json.results.t = "array" /\
                 \/ reply.json.results.a = <<>>
                 \/ reply.json.results.a[1] # NULL /\
                      \/ reply.json.results.a[1].summaries = Undefined
                      \/ reply.json.results.a[1].summaries.t = "array" /\
                           reply.json.results.a[1].summaries.a = <<>>

\* C11: an answered summary request without an id got 400; one with an id
\* got a 200, and when the catalog call threw, was not 2xx, was not JSON,
\* listed no work or listed a work without summaries, that response has
\* summary null and hasSummary false.
C11_SummaryNeverPropagates ==
  \A r \in Req : IsSummary(r) /\ pc[r] = "done" =>
    /\ ~HasId(r) => response[r].status = 400
    /\ HasId(r) => response[r].status = 200 /\ response[r].success
    /\ HasId(r) /\ NoSummaryUpstream(upstream[r].catalog) =>
         response[r].summary = NULL /\ ~response[r].hasSummary

\* C11 happens: a summary request with an id was answered although the
\* catalog answered with a status that is not 2xx.
C11_Witness ==
  \E r \in Req :
    /\ IsSummary(r) /\ HasId(r) /\ pc[r] = "done"
    /\ upstream[r].catalog.kind = "status" /\ ~upstream[r].catalog.ok
    /\ calls[r].catalog = 1

\* The metadata lookup failed or found no work.
NoMetadataUpstream(reply) ==
  \/ reply.kind = "throws"
  \/ reply.kind = "status" /\ ~reply.ok
  \/ reply.kind = "status" /\ reply.ok /\
       \/ reply.json \in {Malformed, NULL}
       \/ reply.json.results = Undefined
       \/ reply.json.results.a = <<>>
       \/ reply.json.results.a[1] = NULL

PlainTextTypes == {"text/plain; charset=utf-8", "text/plain; charset=us-ascii", "text/plain"}

\* The listed work has no plain-text format.
NoTextFormat(reply) ==
  LET work == reply.json.results.a[1]
  IN  work.formats = Undefined \/ work.formats.keys \cap PlainTextTypes = {}

\* The download of the text threw or was not OK.
NoTextUpstream(reply) == reply.kind = "throws" \/ ~reply.ok

ContentUnavailable(u) ==
  \/ NoMetadataUpstream(u.catalog)
  \/ NoTextFormat(u.catalog)
  \/ NoTextUpstream(u.text)

\* C12: an answered content request without an id got 400; one with an id
\* got 404 when the metadata lookup failed or found no work, the work has
\* no plain-text format, or the download failed, and otherwise got a 200
\* that carries the metadata of the listed work, a content and a text URL.
C12_ContentNotFoundOrComplete ==
  \A r \in Req : IsContent(r) /\ pc[r] = "done" =>
    /\ ~HasId(r) => response[r].status = 400
    /\ HasId(r) /\ ContentUnavailable(upstream[r]) => response[r].status = 404
    /\ HasId(r) /\ ~ContentUnavailable(upstream[r]) =>
         /\ response[r].status = 200 /\ response[r].success
         /\ response[r].data.metadata = upstream[r].catalog.json.results.a[1]
         /\ response[r].data.textUrl # NULL
         /\ response[r].data.content \in Seq(LineKinds)

\* C12 happens: the metadata named a plain-text format, the download
\* answered with a status that is not OK, and the request was answered.
C12_Witness ==
  \E r \in Req :
    /\ IsContent(r) /\ HasId(r) /\ pc[r] = "done"
    /\ ~NoMetadataUpstream(upstream[r].catalog) /\ ~NoTextFormat(upstream[r].catalog)
    /\ upstream[r].text.kind = "status" /\ ~upstream[r].text.ok

\* ------------------------------------------ the stages of a search request

\* The stage a search request is in: validating, embedding the query,
\* coverage, first search, replenishing, second search, ranking, logging,
\* responding, answered.
Stage(label) ==
  IF label \in {"start", "parse"} THEN 0
  ELSE IF label = "embedQuery" THEN 1
  ELSE IF label \in {"coverage", "coverEmbed", "coverStore"} THEN 2
  ELSE IF label \in {"search1", "fallback1"} THEN 3
  ELSE IF label \in {"replFetch", "replUpsert", "replEmbed", "replStore"} THEN 4
  ELSE IF label \in {"search2", "fallback2"} THEN 5
  ELSE IF label = "rank" THEN 6
  ELSE IF label = "log" THEN 7
  ELSE IF label = "respond" THEN 8
  ELSE 9

\* The stages that may follow a stage, itself apart.
StageSuccessors(s) ==
  IF s = 0 THEN {9}
  ELSE IF s = 1 THEN {2, 9}
  ELSE IF s = 2 THEN {3}
  ELSE IF s = 3 THEN {4, 6}
  ELSE IF s = 4 THEN {5}
  ELSE IF s = 5 THEN {6, 9}
  ELSE IF s = 6 THEN {7}
  ELSE IF s = 7 THEN {8}
  ELSE IF s = 8 THEN {9}
  ELSE {}

\* How far a request is: its stage, then its place within the stage (the
\* loop index and the call of the loop body it is at).
Progress(r) ==
  Stage(pc[r]) * 1000 +
    (IF pc[r] \in {"coverEmbed", "replEmbed"} THEN 2 * idx[r]
     ELSE IF pc[r] \in {"coverStore", "replStore"} THEN 2 * idx[r] + 1
     ELSE IF pc[r] \in {"parse", "replUpsert", "fallback1", "fallback2"} THEN 1
     ELSE 0)

StageOrder(r) ==
  LET s == Stage(pc[r])
      t == Stage(pc'[r])
  IN  /\ t # s => t \in StageSuccessors(s) \/ (s = 0 /\ pc[r] = "parse" /\ t = 1)
      /\ s < 2 => calls'[r].store = 0 /\ calls'[r].catalog = 0 /\ calls'[r].log = 0
      /\ s = 2 /\ t = 3 /\ pc[r] # "coverage" => idx[r] = Len(batch[r])
      /\ calls'[r].catalog > calls[r].catalog => s = 4 /\ calls[r].catalog = 0
      /\ s = 9 => pc'[r] = pc[r] /\ response'[r] = response[r]
      /\ t = 9 /\ s # 9 => response'[r].status \in {200, 400, 500}
      /\ t # 9 => response'[r] = NoResponse
      /\ Progress(r)' > Progress(r)

\* C13: a search request moves through its stages in the fixed order: it
\* makes no store, catalog or log call before the query embedding returned,
\* starts the first search only when the coverage step is over, fetches from
\* the catalog at most once and only after the first search, is answered
\* once, with a success or a failure, and every step takes it strictly
\* further, so that it cannot go on for ever.
C13_StagesInOrder == [][\A r \in Req : IsSearch(r) => StageOrder(r)]_vars

\* C13 happens: a request went through coverage, a first search,
\* replenishment and a second search, and was answered with a success.
C13_Witness ==
  \E r \in Req :
    /\ IsSearch(r) /\ Succeeded(r)
    /\ calls[r].catalog = 1 /\ calls[r].log = 1 /\ calls[r].embed > 1
    /\ Len(response[r].results) > 0

\* ------------------------------------------ replenishment and merging

\* A returned row whose vector, in either encoding, is closer to the query
\* than 0.15.
RowAboveBar(row, q) ==
  /\ row.embedding.t = "vector"
  /\ row.embedding.enc \in {"string", "array"}
  /\ AbovePct(cosineSimilarity(q, row.embedding.vec), GoodSimilarityPct)

SomeRowAboveBar(rows, q) == \E i \in 1..Len(rows) : RowAboveBar(rows[i], q)

\* C14: after the first search the request goes on to replenish exactly when
\* no returned row has similarity above 0.15, whichever encoding the row's
\* vector comes in.
C14_InsufficientIffNoneAboveBar ==
  \A r \in Req : IsSearch(r) =>
    /\ pc[r] = "replFetch" => ~SomeRowAboveBar(results[r], queryEmbedding[r])
    /\ pc[r] = "rank" /\ calls[r].catalog = 0 =>
         SomeRowAboveBar(results[r], queryEmbedding[r])

\* C15: the records replenishment is about to persist and embed all have a
\* catalog id that the store does not hold.
C15_ReplenishmentBringsNewBooks ==
  \A r \in Req : IsSearch(r) /\ pc[r] = "replUpsert" =>
    \A i \in 1..Len(batch[r]) : ~UniqueConflict(books, batch[r][i])

\* C16: a success response never holds two results with one catalog id.
C16_NoDuplicateResults ==
  \A r \in Req : IsSearch(r) /\ Succeeded(r) =>
    \A i, j \in 1..Len(response[r].results) :
      response[r].results[i].gutenberg_id = response[r].results[j].gutenberg_id => i = j

\* C17: when the candidates of a request hold a row with an embedding (as
\* they do whenever the first search returned one), its success response
\* holds at least one result.
C17_FoundRowsAreKept ==
  \A r \in Req :
    /\ IsSearch(r) /\ Succeeded(r)
    /\ \E i \in 1..Len(results[r]) : results[r][i].embedding.t = "vector"
    => Len(response[r].results) > 0

\* ------------------------------------------------- the coverage step

\* A search for the sea against stores without embeddings: the small ones,
\* and one that holds more unembedded books than the coverage query selects.
InitCoverage ==
  /\ env = [k \in {"OPENAI_API_KEY", "SUPABASE_URL", "SUPABASE_ANON_KEY"} |-> TRUE]
  /\ catalogSize \in 0..1
  /\ rpcEmbeddingColumn \in BOOLEAN
  /\ columnEncoding = "string"
  /\ books \in {InitialStore(n, "null", columnEncoding) :
                  n \in (0..MaxBooks) \cup {CoverageLimit + 2}}
  /\ search_logs = <<>>
  /\ faults = MaxFaults - 1
  /\ endpoint = [r \in Req |-> IF r = 1 THEN "search" ELSE "none"]
  /\ body = [r \in Req |-> IF r = 1 THEN [parses |-> TRUE, query |-> JsString(QuerySea)]
                                     ELSE NoBody]
  /\ pc = [r \in Req |-> IF r = 1 THEN "start" ELSE "done"]
  /\ upstream = [r \in Req |-> NoUpstream]
  /\ InitRequestState

SpecCoverage == InitCoverage /\ [][Next]_vars

WithoutEmbedding(B) == {b \in B : b.embedding = NULL}

InCoverageLoop(r) == pc[r] \in {"coverEmbed", "coverStore"}

\* One step of the coverage stage of request r.
CoverageStep(r) ==
  \* the selection: at most 50 books, all of them without an embedding
  /\ pc[r] = "coverage" /\ pc'[r] = "coverEmbed" =>
       /\ Len(batch'[r]) <= CoverageLimit
       /\ Len(batch'[r]) = Min(CoverageLimit, Cardinality(WithoutEmbedding(books)))
       /\ \A i \in 1..Len(batch'[r]) :
            \E b \in WithoutEmbedding(books) : b.gutenberg_id = batch'[r][i]
  \* a failed coverage query: on to the search
  /\ pc[r] = "coverage" /\ faults' # faults =>
       pc'[r] = "search1" /\ response'[r] = NoResponse
  \* a failed call for one book: that book stays as it was, the next book
  \* is attempted, or the search after the last book
  /\ InCoverageLoop(r) /\ faults' # faults =>
       /\ books' = books
       /\ response'[r] = NoResponse
       /\ IF idx[r] < Len(batch[r])
          THEN pc'[r] = "coverEmbed" /\ idx'[r] = idx[r] + 1
          ELSE pc'[r] = "search1"
  \* the loop is left for the search, after one embedding call per book
  /\ InCoverageLoop(r) =>
       /\ pc'[r] \in {"coverEmbed", "coverStore", "search1"}
       /\ pc'[r] = "search1" =>
            idx[r] = Len(batch[r]) /\ calls'[r].embed = 1 + Len(batch[r])

\* C18: the coverage step selects at most 50 books without an embedding; a
\* failed embedding call or store update skips that book only, every book
\* of the batch is attempted and the request goes on to the first search;
\* a failed coverage query goes on to the first search too.
C18_CoverageSkipsFailedBook ==
  [][\A r \in Req : IsSearch(r) => CoverageStep(r)]_vars

\* A full batch of 50 out of 52, one book of which failed, at the search.
C18_Witness ==
  \E r \in Req :
    /\ IsSearch(r) /\ pc[r] = "search1"
    /\ Len(batch[r]) = CoverageLimit
    /\ calls[r].embed = 1 + CoverageLimit
    /\ faults = MaxFaults
    /\ Cardinality(WithoutEmbedding(books)) = 3

\* ------------------------------------- query embedding failure, the log

\* The step in which the embedding call for the query text fails.
QueryEmbeddingFails(r) == pc[r] = "embedQuery" /\ faults' # faults

\* C19: when the embedding call for the query fails the request ends at
\* once in a 500 response; it has made no store call, no catalog fetch and
\* no log insert, and the store and the log are as they were.
C19_QueryEmbeddingFailureFailsFast ==
  [][\A r \in Req : IsSearch(r) /\ QueryEmbeddingFails(r) =>
       /\ pc'[r] = "done"
       /\ response'[r].status = 500
       /\ calls'[r].store = 0 /\ calls'[r].catalog = 0 /\ calls'[r].log = 0
       /\ books' = books
       /\ search_logs' = search_logs]_vars

\* A request against a store with books that ended after its one embedding
\* call failed.
C19_Witness ==
  \E r \in Req :
    /\ IsSearch(r) /\ pc[r] = "done" /\ response[r].status = 500
    /\ calls[r].embed = 1 /\ faults = 1
    /\ books # {}

\* C20: the log entry of a request that answered agrees with the response:
\* results_count is the number of results, top_similarity the similarity of
\* the first result, which no other result exceeds, or 0 for an empty list.
C20_LogMatchesResponse ==
  \A r \in Req : IsSearch(r) /\ Succeeded(r) /\ Len(search_logs) = 1 =>
    LET entry == search_logs[1]
        rs    == response[r].results
    IN  /\ entry.results_count = Len(rs)
        /\ entry.top_similarity = (IF Len(rs) = 0 THEN 0 ELSE rs[1].similarity)
        /\ \A i \in 1..Len(rs) : rs[i].similarity <= entry.top_similarity

\* A logged response of several results of different similarity.
C20_Witness ==
  \E r \in Req :
    /\ IsSearch(r) /\ Succeeded(r) /\ Len(search_logs) = 1
    /\ Len(response[r].results) > 1
    /\ search_logs[1].top_similarity > 0
    /\ response[r].results[1].similarity > response[r].results[2].similarity

\* ------------------------------------------- two concurrent searches

BothSearch == \A r \in Req : IsSearch(r)

\* No call of either request has failed.
NoFailureYet == faults = MaxFaults - 1

\* Every book has one row, and it carries the embedding of that book.
AllEmbeddedOnce(B) ==
  \A b \in B :
    /\ b.embedding = Vector(columnEncoding, BookVec(b.gutenberg_id))
    /\ \A b2 \in B : b2.gutenberg_id = b.gutenberg_id => b2 = b

\* C21: two searches run interleaved without a failing call. Once both have
\* finished their coverage step (and neither has replenished) each book they
\* found lacking has one row with its embedding, and so has every book when
\* both have answered: the state one request alone leaves.
C21_ConcurrentCoverageConverges ==
  BothSearch /\ NoFailureYet =>
    /\ (\A r \in Req : Stage(pc[r]) >= 3 /\ calls[r].catalog = 0) => AllEmbeddedOnce(books)
    /\ (\A r \in Req : pc[r] = "done") => AllEmbeddedOnce(books)

\* Both requests found the one book of the store lacking, both made the
\* embedding call for it and both wrote it; both have answered.
C21_Witness ==
  /\ BothSearch /\ NoFailureYet
  /\ \A r \in Req : /\ Succeeded(r)
                     /\ calls[r].embed = 2 /\ calls[r].catalog = 0
                     /\ batch[r] = <<1>>
  /\ Cardinality(books) = 1
  /\ AllEmbeddedOnce(books)

\* ------------------------------- the database similarity function alone

\* match_threshold values, in percent, and match_count values.
Thresholds == {-100, 0, 15, 90, 100}
MatchCounts == {0, 1, 2, ResultCap}
QueryVectors == {Vectors[i] : i \in 1..Len(Vectors)}

\* supabase.rpc('search_books_by_similarity', {query_embedding,
\* match_threshold, match_count}) against the store as it is.
RpcSearch ==
  /\ rpcArgs = NULL
  /\ \E q \in QueryVectors, t \in Thresholds, c \in MatchCounts :
       /\ rpcArgs' = [query_embedding |-> q, match_threshold |-> t, match_count |-> c]
       /\ rpcRows' = search_books_by_similarity(books, q, t, c)
  /\ UNCHANGED <<configVars, storeVars, faults, pc, searchVars, loopVars, adminVars,
                 proxyVars, demoVars, response, calls>>

InitSimilarity ==
  /\ env = [k \in {"OPENAI_API_KEY", "SUPABASE_URL", "SUPABASE_ANON_KEY"} |-> TRUE]
  /\ catalogSize = 0
  /\ rpcEmbeddingColumn = TRUE
  /\ columnEncoding \in {"string", "array"}
  /\ books \in InitialStores(columnEncoding)
  /\ search_logs = <<>>
  /\ faults = 0
  /\ endpoint = [r \in Req |-> "none"]
  /\ body = [r \in Req |-> NoBody]
  /\ pc = [r \in Req |-> "done"]
  /\ upstream = [r \in Req |-> NoUpstream]
  /\ InitRequestState

SpecSimilarity == InitSimilarity /\ [][RpcSearch]_vars

\* The rows of the store that qualify for the running call.
Qualifying ==
  {b \in books : /\ b.embedding # NULL
                 /\ AbovePct(DbSimilarity(b, rpcArgs.query_embedding), rpcArgs.match_threshold)}

\* C22: the function returns at most match_count rows; each is a row of the
\* store with an embedding and a similarity strictly above the threshold;
\* they are in non-increasing order of similarity, and no qualifying row
\* that was left out is more similar than a returned one.
C22_SimilarityFunctionTopRows ==
  rpcArgs # NULL =>
    LET q == rpcArgs.query_embedding
        returned == {rpcRows[i].id : i \in 1..Len(rpcRows)}
    IN  /\ Len(rpcRows) <= rpcArgs.match_count
        /\ Len(rpcRows) = Min(rpcArgs.match_count, Cardinality(Qualifying))
        /\ Cardinality(returned) = Len(rpcRows)
        /\ \A i \in 1..Len(rpcRows) :
             /\ rpcRows[i].embedding # NULL
             /\ AbovePct(rpcRows[i].similarity, rpcArgs.match_threshold)
             /\ \E b \in Qualifying :
                  /\ b.id = rpcRows[i].id /\ b.gutenberg_id = rpcRows[i].gutenberg_id
                  /\ b.embedding = rpcRows[i].embedding
                  /\ rpcRows[i].similarity = DbSimilarity(b, q)
        /\ \A i, j \in 1..Len(rpcRows) :
             i < j => rpcRows[i].similarity >= rpcRows[j].similarity
        /\ \A b \in Qualifying : b.id \notin returned =>
             \A i \in 1..Len(rpcRows) : DbSimilarity(b, q) <= rpcRows[i].similarity

\* A call that returned two rows and left out a qualifying row that is less
\* similar, from a store that also holds rows below the threshold.
C22_Witness ==
  /\ rpcArgs # NULL
  /\ Len(rpcRows) = 2 /\ rpcArgs.match_count = 2
  /\ Cardinality(Qualifying) > 2
  /\ Cardinality(Qualifying) < Cardinality(books)
  /\ \E b \in Qualifying :
       DbSimilarity(b, rpcArgs.query_embedding) < rpcRows[2].similarity

\* ------------------------------------------- what the seed fetch returns

\* fetchBooksFromAPI has returned; batch holds the records it returned.
FetchReturned(r) == IsSeed(r) /\ pc[r] = "fetched"

InStore(g) == \E b \in books : b.gutenberg_id = g

NewInCatalog == {g \in 1..catalogSize : ~InStore(g)}

\* C23: the seed fetch returns at most totalBooks records, none of them with
\* a catalog id the store held when the fetch started, and, when no catalog
\* request failed, as many as asked for or every new record of the catalog.
C23_FetchReturnsNewRecords ==
  \A r \in Req : FetchReturned(r) =>
    /\ Len(batch[r]) <= totalBooks[r]
    /\ \A i \in 1..Len(batch[r]) : ~InStore(batch[r][i])
    /\ faults = 0 => Len(batch[r]) = Min(totalBooks[r], Cardinality(NewInCatalog))

\* C24: a failed catalog page request ends the paging loop: the page is not
\* requested again, and what the fetch returns is what was collected from
\* the pages before it.
C24_FailedPageStopsFetch ==
  /\ [][\A r \in Req : IsSeed(r) /\ FetchIteration(r) /\ faults' # faults =>
          /\ pc'[r] = "fetched"
          /\ batch'[r] = batch[r]
          /\ pagesRequested'[r] = Append(pagesRequested[r], page[r])]_vars
  /\ [][\A r \in Req : FetchReturned(r) =>
          batch'[r] = batch[r] /\ pagesRequested'[r] = pagesRequested[r]]_vars
  /\ [](\A r \in Req : \A i, j \in 1..Len(pagesRequested[r]) :
          pagesRequested[r][i] = pagesRequested[r][j] => i = j)

\* The first page gave its records, the request of the second page failed,
\* and the fetch returned the records of the first.
C24_Witness ==
  \E r \in Req :
    /\ FetchReturned(r) /\ faults = 1 /\ books = {}
    /\ catalogSize > PageSize /\ totalBooks[r] > PageSize
    /\ pagesRequested[r] = <<1, 2>>
    /\ batch[r] = CatalogPage(catalogSize, 1)

\* -------------------------------------------------- seeding and old rows

\* Request r takes a step.
Acts(r) == calls'[r] # calls[r] \/ pc'[r] # pc[r]

\* The step in which a seed request learns that the record at hand is in the
\* store: its existence check finds the row, or its insert is rejected.
SeedFindsStored(r) ==
  /\ IsSeed(r) /\ pc[r] \in {"seedCheck", "seedInsert"} /\ Acts(r)
  /\ faults' = faults
  /\ InStore(batch[r][idx[r]])

\* C25: a step of a seed request leaves every row that exists as it is; a
\* record it finds stored, by the existence check or by the rejected
\* insert, is counted as skipped and not as an error.
C25_SeedKeepsExistingRows ==
  [][\A r \in Req :
       /\ IsSeed(r) /\ Acts(r) => \A b \in books : b \in books'
       /\ SeedFindsStored(r) =>
            /\ books' = books
            /\ counts'[r] = [counts[r] EXCEPT !.skipped = @ + 1]]_vars

\* A seed request found no row for its record, made the embedding call, and
\* had its insert rejected because the row had been written meanwhile: the
\* record is skipped and the other writer's row is in the store.
C25_Witness ==
  \E r \in Req :
    /\ IsSeed(r) /\ pc[r] = "done" /\ NoFailureYet
    /\ Len(batch[r]) > 0
    /\ counts[r].skipped = Len(batch[r]) /\ counts[r].errors = 0
    /\ calls[r].embed > 0
    /\ \A i \in 1..Len(batch[r]) : InStore(batch[r][i])

\* --------------------------------------- the batch routes, one request

BatchBodies ==
  {[parses |-> TRUE, totalBooks |-> t] : t \in {Undefined, JsNumber(1), JsNumber(2)}}

\* One seed or embed-all request, handled alone, with all credentials set.
InitBatch ==
  /\ env = [k \in {"OPENAI_API_KEY", "SUPABASE_URL", "SUPABASE_ANON_KEY"} |-> TRUE]
  /\ catalogSize \in 0..(MaxCatalog + 1)
  /\ rpcEmbeddingColumn = TRUE
  /\ columnEncoding = "string"
  /\ books \in {InitialStore(n, profile, columnEncoding) :
                  n \in 0..MaxBooks, profile \in {"null", "mixed"}}
  /\ search_logs = <<>>
  /\ faults = 0
  /\ \E e \in {"seed", "embedAll"} :
       /\ endpoint = [r \in Req |-> IF r = 1 THEN e ELSE "none"]
       /\ \E b \in (IF e = "seed" THEN BatchBodies ELSE {NoBody}) :
            body = [r \in Req |-> IF r = 1 THEN b ELSE NoBody]
  /\ pc = [r \in Req |-> IF r = 1 THEN "start" ELSE "done"]
  /\ upstream = [r \in Req |-> NoUpstream]
  /\ InitRequestState

NextBatch == \E r \in Req : SeedStep(r) \/ EmbedAllStep(r)

SpecBatch == InitBatch /\ [][NextBatch]_vars

IsEmbedAll(r) == endpoint[r] = "embedAll"

\* The request is in the embedding loop of its route.
InBatchLoop(r) ==
  pc[r] \in {"seedCheck", "seedEmbed", "seedInsert", "allEmbed", "allUpdate"}

\* The request is about to make the embedding call for batch[idx].
AtEmbeddingCall(r) == pc[r] \in {"seedEmbed", "allEmbed"}

\* The step is a failed embedding call or a failed write of the book at hand.
BookFails(r) ==
  /\ pc[r] \in {"seedEmbed", "seedInsert", "allEmbed", "allUpdate"}
  /\ Acts(r) /\ faults' # faults

Distinct(s) == \A i, j \in 1..Len(s) : s[i] = s[j] => i = j

\* C26: in a seed or embed-all run the selected books are distinct and the
\* loop index only moves forward, so each book has at most one embedding
\* call; a failed call or write counts one error and moves to the next book.
C26_NoRetryInBatch ==
  /\ [](\A r \in Req : (IsSeed(r) \/ IsEmbedAll(r)) /\ InBatchLoop(r) =>
          /\ Distinct(batch[r])
          /\ calls[r].embed <= (IF AtEmbeddingCall(r) THEN idx[r] - 1 ELSE idx[r]))
  /\ [](\A r \in Req : (IsSeed(r) \/ IsEmbedAll(r)) => calls[r].embed <= Len(batch[r]))
  /\ [][\A r \in Req : (IsSeed(r) \/ IsEmbedAll(r)) /\ InBatchLoop(r) =>
          /\ idx'[r] >= idx[r]
          /\ BookFails(r) =>
               /\ counts'[r] = [counts[r] EXCEPT !.errors = @ + 1]
               /\ books' = books
               /\ IF idx[r] < Len(batch[r])
                  THEN idx'[r] = idx[r] + 1
                  ELSE pc'[r] \in {"seedRespond", "allRespond"}]_vars

\* A run over two books or more answered after the embedding call of one
\* book failed: no more calls than books, one error.
C26_Witness ==
  \E r \in Req :
    /\ IsEmbedAll(r) /\ Succeeded(r)
    /\ Len(batch[r]) >= 2 /\ faults = 1
    /\ calls[r].embed = Len(batch[r])
    /\ calls[r].store = Len(batch[r])
    /\ counts[r].errors = 1 /\ counts[r].processed = Len(batch[r]) - 1

Sum(c) == c.processed + c.skipped + c.errors

\* C27: the seed counters partition the fetched records: while the loop is
\* at record idx the counters add up to idx - 1, every step that leaves a
\* record raises exactly one counter by one, and the response's
\* booksProcessed + booksSkipped + booksWithErrors is its booksFetched.
C27_SeedCountersPartition ==
  /\ [](\A r \in Req : IsSeed(r) =>
          /\ InBatchLoop(r) => Sum(counts[r]) = idx[r] - 1
          /\ pc[r] = "seedRespond" => Sum(counts[r]) = Len(batch[r])
          /\ Succeeded(r) =>
               /\ response[r].booksFetched = Len(batch[r])
               /\ response[r].booksProcessed + response[r].booksSkipped
                    + response[r].booksWithErrors = response[r].booksFetched)
  /\ [][\A r \in Req : IsSeed(r) /\ InBatchLoop(r) /\ counts'[r] # counts[r] =>
          \E k \in {"processed", "skipped", "errors"} :
            counts'[r] = [counts[r] EXCEPT ![k] = @ + 1]]_vars

\* A seed response over two records, one skipped after its insert was
\* rejected and one stored.
C27_Witness ==
  \E r \in Req :
    /\ IsSeed(r) /\ Succeeded(r)
    /\ response[r].booksFetched = 2
    /\ response[r].booksSkipped = 1 /\ response[r].booksProcessed = 1
    /\ calls[r].embed = 2

\* The response of an embed-all run that found books to embed.
RanEmbedAll(r) == IsEmbedAll(r) /\ Succeeded(r) /\ Len(batch[r]) > 0

\* C28: the response of an embed-all run has booksProcessed +
\* booksWithErrors = totalBooks, the number of books that lacked an
\* embedding when the run started; a book is counted as processed only in
\* an update that reported no error and changed a row, and then it has its
\* embedding. A run that found no such book answers booksProcessed 0.
C28_EmbedAllCountersAddUp ==
  /\ [](\A r \in Req : RanEmbedAll(r) =>
          /\ response[r].booksProcessed + response[r].booksWithErrors = response[r].totalBooks
          /\ response[r].totalBooks = Len(batch[r])
          /\ response[r].totalBooks =
               response[r].booksProcessed + Cardinality(WithoutEmbedding(books)))
  /\ [](\A r \in Req : IsEmbedAll(r) /\ Succeeded(r) /\ Len(batch[r]) = 0 =>
          response[r].booksProcessed = 0 /\ WithoutEmbedding(books) = {})
  /\ [][\A r \in Req : IsEmbedAll(r) /\ counts'[r].processed # counts[r].processed =>
          /\ pc[r] = "allUpdate" /\ faults' = faults
          /\ counts'[r].processed = counts[r].processed + 1
          /\ \E b \in books : b.gutenberg_id = batch[r][idx[r]] /\ b.embedding = NULL
          /\ \A b \in books' : b.gutenberg_id = batch[r][idx[r]] => b.embedding # NULL]_vars

\* A run over three books of which one update failed and two went through.
C28_Witness ==
  \E r \in Req :
    /\ RanEmbedAll(r)
    /\ response[r].totalBooks = 3
    /\ response[r].booksProcessed = 2 /\ response[r].booksWithErrors = 1
    /\ calls[r].embed = 3 /\ calls[r].store = 4

\* ------------------------------------------------- rows are never lost

CatalogIds(B) == {b.gutenberg_id : b \in B}
EmbeddedIds(B) == {b.gutenberg_id : b \in {x \in B : x.embedding # NULL}}

\* C29: no step of any request deletes a book row or sets an embedding back
\* to null: every row is still there after the step, with its embedding if
\* it had one, so the stored catalog ids and the embedded catalog ids only
\* grow.
C29_RowsAndEmbeddingsOnlyGrow ==
  [][/\ CatalogIds(books) \subseteq CatalogIds(books')
     /\ EmbeddedIds(books) \subseteq EmbeddedIds(books')
     /\ \A b \in books :
          \E b2 \in books' :
            /\ b2.id = b.id /\ b2.gutenberg_id = b.gutenberg_id
            /\ b.embedding # NULL => b2.embedding # NULL]_vars

\* Replenishment has upserted its records: one was new, one had a row with
\* an embedding, and that row still has it.
C29_Witness ==
  \E r \in Req :
    /\ IsSearch(r) /\ pc[r] = "replEmbed" /\ idx[r] = 1
    /\ calls[r].catalog = 1
    /\ \E i \in 1..Len(batch[r]) : batch[r][i] \in EmbeddedIds(books)
    /\ \E i \in 1..Len(batch[r]) :
         batch[r][i] \in CatalogIds(books) \ EmbeddedIds(books)

\* ------------------------------------------------ demo search route: POST

\* for (const book of SAMPLE_BOOKS) if (!book.embedding): the first sample
\* book from position i on that has no embedding in S, or 0 when the loop
\* runs to its end without an embedding call.
NextUnembedded(S, i) ==
  LET todo == {b \in SampleBooks : b >= i /\ S[b] = NULL}
  IN  IF todo = {} THEN 0 ELSE CHOOSE b \in todo : \A c \in todo : b <= c

\* generateBookEmbeddings runs on, without awaiting, to its next embedding
\* call; after the loop the handler makes the call for the query.
DemoContinue(r, S, i) ==
  IF NextUnembedded(S, i) = 0
  THEN /\ Goto(r, "demoQuery")
       /\ UNCHANGED idx
  ELSE /\ Goto(r, "demoEmbed")
       /\ idx' = [idx EXCEPT ![r] = NextUnembedded(S, i)]

\* await request.json(), the validation of query, the key check, and the
\* start of generateBookEmbeddings.
DemoParse(r) ==
  /\ endpoint[r] = "demo" /\ pc[r] = "start"
  /\ IF ~body[r].parses
       THEN Respond(r, ErrorResponse(500, "Internal server error")) /\ UNCHANGED idx
     ELSE IF Falsy(body[r].query) \/ body[r].query.t # "string"
       THEN Respond(r, ErrorResponse(400, "Query is required and must be a string"))
            /\ UNCHANGED idx
     ELSE IF ~env.OPENAI_API_KEY
       THEN Respond(r, ErrorResponse(500, "OpenAI API key not configured")) /\ UNCHANGED idx
     ELSE DemoContinue(r, samples, 1) /\ UNCHANGED response
  /\ UNCHANGED <<configVars, storeVars, faults, searchVars, batch, embedding, adminVars,
                 proxyVars, demoVars, rpcVars, calls>>

\* generateBookEmbeddings: the embedding call for SAMPLE_BOOKS[idx] returns.
\* book.embedding becomes the array of this response; a throw is logged.
demoEmbed(r) ==
  /\ endpoint[r] = "demo" /\ pc[r] = "demoEmbed"
  /\ Called(r, "embed")
  /\ \/ /\ NoFault
        /\ samples' = [samples EXCEPT ![idx[r]] = [vec |-> BookVec(idx[r]), response |-> r]]
        /\ sampleCalls' = [sampleCalls EXCEPT ![idx[r]] = @ + 1]
     \/ /\ Fault
        /\ UNCHANGED <<samples, sampleCalls>>
  /\ DemoContinue(r, samples', idx[r] + 1)
  /\ UNCHANGED <<configVars, storeVars, searchVars, batch, embedding, adminVars,
                 proxyVars, rpcVars>>

\* SAMPLE_BOOKS.filter(book => book.embedding).map(similarity).sort().slice(0, 10)
DemoResults(S, q) ==
  LET have == {b \in SampleBooks : S[b] # NULL}
      rows == [i \in 1..Cardinality(have) |->
                 LET b == CHOOSE x \in have : Cardinality({y \in have : y < x}) = i - 1
                 IN  [id |-> b, similarity |-> cosineSimilarity(q, S[b].vec)]]
  IN  Take(SortBySimilarity(rows), ResultCap)

\* The embedding call for the query returns, and the handler answers.
demoQuery(r) ==
  /\ endpoint[r] = "demo" /\ pc[r] = "demoQuery"
  /\ Called(r, "embed")
  /\ \/ /\ NoFault
        /\ queryEmbedding' = [queryEmbedding EXCEPT ![r] = QueryVec(body[r].query.s)]
        /\ Respond(r, ResultsResponse(DemoResults(samples, QueryVec(body[r].query.s))))
     \/ /\ Fault
        /\ UNCHANGED queryEmbedding
        /\ Respond(r, ErrorResponse(500, "Internal server error"))
  /\ UNCHANGED <<configVars, storeVars, found, results, ranked, loopVars, adminVars,
                 proxyVars, demoVars, rpcVars>>

DemoStep(r) == DemoParse(r) \/ demoEmbed(r) \/ demoQuery(r)

DemoBodies ==
  {[parses |-> FALSE], [parses |-> TRUE, query |-> Undefined],
   [parses |-> TRUE, query |-> JsString(QuerySea)]}

\* Two requests to the demo route in one process, its sample list as loaded.
InitDemo ==
  /\ env \in {[k \in {"OPENAI_API_KEY", "SUPABASE_URL", "SUPABASE_ANON_KEY"} |-> key] :
               key \in BOOLEAN}
  /\ catalogSize = 0
  /\ rpcEmbeddingColumn = TRUE
  /\ columnEncoding = "string"
  /\ books = {}
  /\ search_logs = <<>>
  /\ faults = 0
  /\ endpoint = [r \in Req |-> "demo"]
  /\ body \in [Req -> DemoBodies]
  /\ pc = [r \in Req |-> "start"]
  /\ upstream = [r \in Req |-> NoUpstream]
  /\ InitRequestState

NextDemo == \E r \in Req : DemoStep(r)

SpecDemo == InitDemo /\ [][NextDemo]_vars

\* C30: the provider returns an embedding at most once for each sample
\* book, and a sample book's embedding, once set, is not assigned again.
C30_SampleEmbeddedOnce ==
  /\ [](\A b \in SampleBooks : sampleCalls[b] <= 1)
  /\ [][\A b \in SampleBooks : samples[b] # NULL => samples'[b] = samples[b]]_vars

====
